---- MODULE Spec2Model ----
(***************************************************************************)
(* Behavioural model of the PDF form editor's client pages:                *)
(*   - designpage_portfolio.js  (portfolio design page)                    *)
(*   - editpage_portfolio.js    (portfolio edit / fill page)               *)
(*   - designpage.js            (design page writing AcroForm fields)      *)
(* Zoom scales are kept in tenths (currentScale = 10 is the source's 1.0;  *)
(* one zoom click is the source's 0.1).  Coordinates that the source       *)
(* divides or multiplies by a scale are exact rationals [n, d]; IEEE       *)
(* rounding of the JavaScript doubles is not modelled.                     *)
(***************************************************************************)
EXTENDS Integers, Sequences, FiniteSets, TLC

(***************************************************************************)
(* Bounds of the model                                                     *)
(***************************************************************************)
MaxPages == 2
MaxFields == 1
MaxIds == 2
MaxZoomIn == 1
MaxZoomOut == 0
MaxPending == 1
MaxDragMoves == 1
MaxEdits == 1
MaxVisits == 2
MaxPlaced == 2
MaxGestures == 1
MaxFillFields == 1
MaxRenders == 2

(***************************************************************************)
(* Exact rational arithmetic                                               *)
(***************************************************************************)
Abs(a) == IF a < 0 THEN -a ELSE a

RECURSIVE GCD(_, _)
GCD(a, b) == IF b = 0 THEN a ELSE GCD(b, a % b)

\* n/d in lowest terms, d > 0
Rat(n, d) ==
  LET g == GCD(Abs(n), d)
  IN  [n |-> n \div g, d |-> d \div g]

RatInt(k) == [n |-> k, d |-> 1]
RatAdd(a, b) == Rat(a.n * b.d + b.n * a.d, a.d * b.d)
RatMul(a, b) == Rat(a.n * b.n, a.d * b.d)
\* a / b for b > 0
RatDiv(a, b) == Rat(a.n * b.d, a.d * b.n)
RatLE(a, b) == a.n * b.d <= b.n * a.d

\* a scale kept in tenths, as a rational
ScaleOf(tenths) == Rat(tenths, 10)

(***************************************************************************)
(* Inputs                                                                  *)
(***************************************************************************)
\* pointer positions, as offsets in CSS pixels from the overlay's corner
Points == {<<20, 30>>, <<120, 50>>}
\* pointer positions on the design page's canvas, in canvas pixels
CanvasPoints == {<<20, 30>>, <<100, 42>>}
\* field types offered by the portfolio design page's toolbar
PortfolioTypes == {"text", "checkbox"}
\* texts a user types into a name box
NameTexts == {"A"}
\* values a user types into a fill-in input
ValueTexts == {"v"}

\* field names: the default name a page generates, a pasted copy of it, or
\* a text the user typed
DefaultName(type, p, n) ==
  [kind |-> "default", type |-> type, p |-> p, n |-> n, copies |-> 0, text |-> ""]
CustomName(text) ==
  [kind |-> "custom", type |-> "", p |-> 0, n |-> 0, copies |-> 0, text |-> text]

VARIABLES
  \* which page the browser tab shows
  stage,
  \* designpage_portfolio.js
  pdfLoad, currentPage, totalPages, currentScale, formFields, activeField,
  pdIsDragging, pdStartX, pdStartY, fieldTypeToAdd, isPlacingField,
  formOverlay, renderQueue, schemaRequest, nextId, pointer, dragMoves,
  sentSchema,
  \* editpage_portfolio.js (portfolioEditor.*)
  peLoad, peCurrentPage, peTotalPages, peCurrentScale, peFormFields,
  fieldInputs, peOverlay, peSchemaRequest, entered, formValues,
  \* the server's persisted schema, and the page count of the document
  serverSchema, docPages,
  \* designpage.js
  dpLoad, pageNum, currentFieldType, placedFields, isDragging, isResizing,
  resizeDirection, dragFieldIndex, startX, startY, originalX, originalY,
  originalWidth, originalHeight, copiedField, fieldNameInput, panelField,
  nextUid, gestures, edits, savedFields,
  \* what the last mousedown on a field took hold of (not in the source)
  grabbed,
  \* page loads
  localStorage, requested, opened, visits,
  \* editPage.js
  fpLoad, fpPageNum, fpTotalPages, fpFormFields, fieldsPanel, fpRenders,
  fpCanvas,
  \* the text the last event left in #page-number, if it was a change of
  \* that box, and the page shown before it (not in the source)
  typed,
  \* nextId at the call of loadFormFields (not in the source)
  idAtRequest

pdVars == <<pdfLoad, currentPage, totalPages, currentScale, formFields,
            activeField, pdIsDragging, pdStartX, pdStartY, fieldTypeToAdd,
            isPlacingField, formOverlay, renderQueue, schemaRequest, nextId,
            pointer, dragMoves, sentSchema>>

peVars == <<peLoad, peCurrentPage, peTotalPages, peCurrentScale, peFormFields,
            fieldInputs, peOverlay, peSchemaRequest, entered, formValues>>

gestureVars == <<isDragging, isResizing, resizeDirection, dragFieldIndex, startX,
                 startY, originalX, originalY, originalWidth, originalHeight,
                 grabbed>>

dpVars == <<dpLoad, pageNum, currentFieldType, placedFields, gestureVars,
            copiedField, fieldNameInput, panelField, nextUid, gestures, edits, savedFields>>

ldVars == <<localStorage, requested, opened, visits>>

fpVars == <<fpLoad, fpPageNum, fpTotalPages, fpFormFields, fieldsPanel, fpRenders,
            fpCanvas, typed>>

\* everything but the design page's own state
notDp == <<pdVars, peVars, ldVars, fpVars, idAtRequest, serverSchema, docPages>>

vars == <<stage, pdVars, peVars, dpVars, ldVars, fpVars, idAtRequest, serverSchema, docPages>>


(***************************************************************************)
(* designpage_portfolio.js : helpers                                       *)
(***************************************************************************)
\* field.id, undefined (0) for a descriptor that carries none
FieldId(f) == IF "id" \in DOMAIN f THEN f.id ELSE 0

\* obj[k] = v on a JavaScript object
SetKey(f, k, v) == [kk \in DOMAIN f \cup {k} |-> IF kk = k THEN v ELSE f[kk]]

\* the fieldTypes table with the `|| 200` and `|| 40` fallbacks of addFormField
fieldTypes(type) ==
  CASE type = "text"      -> [defaultWidth |-> 200, defaultHeight |-> 40]
    [] type = "checkbox"  -> [defaultWidth |-> 40,  defaultHeight |-> 40]
    [] type = "signature" -> [defaultWidth |-> 200, defaultHeight |-> 80]
    [] type = "date"      -> [defaultWidth |-> 200, defaultHeight |-> 40]
    [] OTHER              -> [defaultWidth |-> 200, defaultHeight |-> 40]

\* type.charAt(0).toUpperCase() + type.slice(1)
Capitalize(type) ==
  CASE type = "text"      -> "Text"
    [] type = "checkbox"  -> "Checkbox"
    [] type = "signature" -> "Signature"
    [] type = "date"      -> "Date"
    [] OTHER              -> type

\* the style renderFormFields gives the element of one field
FieldElement(f, i, s) ==
  [idx |-> i, id |-> FieldId(f),
   left   |-> RatMul(f.x, ScaleOf(s)),
   top    |-> RatMul(f.y, ScaleOf(s)),
   width  |-> RatMul(RatInt(f.width), ScaleOf(s)),
   height |-> RatMul(RatInt(f.height), ScaleOf(s))]

\* renderFormFields(pageNumber): the overlay's children, in document order
renderFormFields(fields, pageNumber, s) ==
  LET F[i \in 0..Len(fields)] ==
        IF i = 0 THEN <<>>
        ELSE IF fields[i].page = pageNumber
             THEN Append(F[i - 1], FieldElement(fields[i], i, s))
             ELSE F[i - 1]
  IN  F[Len(fields)]

\* the overlay child under a pointer position (later siblings are on top),
\* 0 when the position is on the bare overlay
InBox(e, p) ==
  /\ RatLE(e.left, RatInt(p[1])) /\ RatLE(RatInt(p[1]), RatAdd(e.left, e.width))
  /\ RatLE(e.top, RatInt(p[2]))  /\ RatLE(RatInt(p[2]), RatAdd(e.top, e.height))

ElementAt(overlay, p) ==
  LET hits == {k \in 1..Len(overlay) : InBox(overlay[k], p)}
  IN  IF hits = {} THEN 0 ELSE CHOOSE k \in hits : \A j \in hits : j <= k

\* formFields.findIndex(f => f.id === id), 0 when there is none
FindIndexById(fields, id) ==
  LET hits == {i \in 1..Len(fields) : FieldId(fields[i]) = id}
  IN  IF hits = {} THEN 0 ELSE CHOOSE i \in hits : \A j \in hits : i <= j

RemoveAt(seq, i) ==
  [j \in 1..(Len(seq) - 1) |-> IF j < i THEN seq[j] ELSE seq[j + 1]]

NullField == [kind |-> "null"]
RefField(i) == [kind |-> "ref", idx |-> i]
ObjField(f) == [kind |-> "obj", obj |-> f]

\* the object activeField refers to
ActiveObject ==
  IF activeField.kind = "ref" THEN formFields[activeField.idx] ELSE activeField.obj

\* selectField(fieldId): the first field with that id becomes active, and
\* nothing changes when there is none.  attr tells whether the id was read
\* back from the data-field-id attribute (a string: "undefined" never
\* equals an absent id)
selectField(id, attr) ==
  LET i == IF attr /\ id = 0 THEN 0 ELSE FindIndexById(formFields, id)
  IN  IF i = 0 THEN activeField ELSE RefField(i)

\* renderPage(pageNumber): pdfDoc.getPage on a null pdfDoc throws, otherwise
\* the getPage/render promise chain of that page is outstanding
renderPage(queue, pageNumber) ==
  IF pdfLoad = "loaded"
  THEN Append(queue, pageNumber)
  ELSE queue

CanRender == pdfLoad # "loaded" \/ Len(renderQueue) < MaxPending

InDesign == stage = "design_portfolio"


(***************************************************************************)
(* designpage_portfolio.js : handlers                                      *)
(***************************************************************************)
\* page number typed into #page-number, after parseInt
PageInputs ==
  {[nan |-> TRUE, val |-> 0]} \cup {[nan |-> FALSE, val |-> v] : v \in 0..(MaxPages + 1)}

\* texts a user leaves in the #page-number box, as sequences of characters
PageTexts ==
  {<<>>, <<"x">>, <<"0">>, <<"1">>, <<"2">>, <<"3">>, <<"1", "e", "1">>}

\* the value of a decimal digit, -1 for any other character
DigitOf(c) ==
  CASE c = "0" -> 0 [] c = "1" -> 1 [] c = "2" -> 2 [] c = "3" -> 3 [] c = "4" -> 4
    [] c = "5" -> 5 [] c = "6" -> 6 [] c = "7" -> 7 [] c = "8" -> 8 [] c = "9" -> 9
    [] OTHER -> -1

\* the number a sequence of decimal digits writes
DigitsValue(ds) ==
  LET V[i \in 0..Len(ds)] == IF i = 0 THEN 0 ELSE 10 * V[i - 1] + DigitOf(ds[i])
  IN  V[Len(ds)]

\* how many leading characters of a text are decimal digits
LeadingDigits(text) ==
  CHOOSE k \in 0..Len(text) :
    /\ \A i \in 1..k : DigitOf(text[i]) >= 0
    /\ k < Len(text) => DigitOf(text[k + 1]) < 0

\* parseInt(text): the leading decimal digits, NaN when there are none
parseInt(text) ==
  LET k == LeadingDigits(text)
  IN  IF k = 0
      THEN [nan |-> TRUE, val |-> 0]
      ELSE [nan |-> FALSE, val |-> DigitsValue(SubSeq(text, 1, k))]

\* values the property panel's controls hold when their change event fires
PanelInputs ==
  {[name |-> CustomName(t), required |-> TRUE, read_only |-> TRUE] : t \in NameTexts}

\* loadPDF: getDocument resolved; renderPage(currentPage), loadFormFields()
LoadPDFResolved ==
  /\ InDesign /\ pdfLoad = "pending"
  /\ pdfLoad' = "loaded"
  /\ totalPages' = docPages
  /\ renderQueue' = Append(renderQueue, currentPage)
  /\ schemaRequest' = "pending"
  /\ idAtRequest' = nextId
  /\ UNCHANGED <<stage, currentPage, currentScale, formFields, activeField,
                 pdIsDragging, pdStartX, pdStartY, fieldTypeToAdd, isPlacingField,
                 formOverlay, nextId, pointer, dragMoves, sentSchema, serverSchema, docPages, peVars, dpVars, ldVars, fpVars>>

\* renderPage: page.render(...).promise resolved, renderFormFields(pageNumber)
RenderResolved(i) ==
  /\ InDesign /\ i \in 1..Len(renderQueue)
  /\ renderQueue' = RemoveAt(renderQueue, i)
  /\ formOverlay' = renderFormFields(formFields, renderQueue[i], currentScale)
  /\ UNCHANGED <<stage, pdfLoad, currentPage, totalPages, currentScale, formFields,
                 activeField, pdIsDragging, pdStartX, pdStartY, fieldTypeToAdd,
                 isPlacingField, schemaRequest, nextId, pointer, dragMoves,
                 sentSchema, serverSchema, docPages, peVars, dpVars, ldVars, fpVars, idAtRequest>>

\* loadFormFields: the schema request answered with the stored schema (or a
\* blank one), or failed
SchemaResponse(ok) ==
  /\ InDesign /\ schemaRequest = "pending"
  /\ schemaRequest' = "done"
  /\ formFields' = IF ok THEN serverSchema ELSE <<>>
  /\ activeField' = IF activeField.kind = "ref" THEN ObjField(ActiveObject) ELSE activeField
  /\ formOverlay' = renderFormFields(formFields', currentPage, currentScale)
  /\ UNCHANGED <<stage, pdfLoad, currentPage, totalPages, currentScale,
                 pdIsDragging, pdStartX, pdStartY, fieldTypeToAdd, isPlacingField,
                 renderQueue, nextId, pointer, dragMoves, sentSchema, serverSchema, docPages, peVars, dpVars, ldVars, fpVars, idAtRequest>>

\* #zoom-in click
ZoomIn ==
  /\ InDesign /\ ~pointer.down /\ CanRender /\ currentScale < 10 + MaxZoomIn
  /\ currentScale' = currentScale + 1
  /\ renderQueue' = renderPage(renderQueue, currentPage)
  /\ UNCHANGED <<stage, pdfLoad, currentPage, totalPages, formFields, activeField,
                 pdIsDragging, pdStartX, pdStartY, fieldTypeToAdd, isPlacingField,
                 formOverlay, schemaRequest, nextId, pointer, dragMoves, sentSchema,
                 serverSchema, docPages, peVars, dpVars, ldVars, fpVars, idAtRequest>>

\* #zoom-out click
ZoomOut ==
  /\ InDesign /\ ~pointer.down /\ CanRender /\ currentScale > 10 - MaxZoomOut
  /\ currentScale > 2
  /\ currentScale' = currentScale - 1
  /\ renderQueue' = renderPage(renderQueue, currentPage)
  /\ UNCHANGED <<stage, pdfLoad, currentPage, totalPages, formFields, activeField,
                 pdIsDragging, pdStartX, pdStartY, fieldTypeToAdd, isPlacingField,
                 formOverlay, schemaRequest, nextId, pointer, dragMoves, sentSchema,
                 serverSchema, docPages, peVars, dpVars, ldVars, fpVars, idAtRequest>>

\* #prev-page click
PrevPage ==
  /\ InDesign /\ ~pointer.down /\ CanRender
  /\ currentPage > 1
  /\ currentPage' = currentPage - 1
  /\ renderQueue' = renderPage(renderQueue, currentPage')
  /\ UNCHANGED <<stage, pdfLoad, totalPages, currentScale, formFields, activeField,
                 pdIsDragging, pdStartX, pdStartY, fieldTypeToAdd, isPlacingField,
                 formOverlay, schemaRequest, nextId, pointer, dragMoves, sentSchema,
                 serverSchema, docPages, peVars, dpVars, ldVars, fpVars, idAtRequest>>

\* #next-page click
NextPage ==
  /\ InDesign /\ ~pointer.down /\ CanRender
  /\ currentPage < totalPages
  /\ currentPage' = currentPage + 1
  /\ renderQueue' = renderPage(renderQueue, currentPage')
  /\ UNCHANGED <<stage, pdfLoad, totalPages, currentScale, formFields, activeField,
                 pdIsDragging, pdStartX, pdStartY, fieldTypeToAdd, isPlacingField,
                 formOverlay, schemaRequest, nextId, pointer, dragMoves, sentSchema,
                 serverSchema, docPages, peVars, dpVars, ldVars, fpVars, idAtRequest>>

\* #page-number change
PageNumberChange(in) ==
  /\ InDesign /\ ~pointer.down /\ CanRender
  /\ IF ~in.nan /\ in.val # 0 /\ in.val > 0 /\ in.val <= totalPages
     THEN /\ currentPage' = in.val
          /\ renderQueue' = renderPage(renderQueue, in.val)
     ELSE UNCHANGED <<currentPage, renderQueue>>
  /\ UNCHANGED <<stage, pdfLoad, totalPages, currentScale, formFields, activeField,
                 pdIsDragging, pdStartX, pdStartY, fieldTypeToAdd, isPlacingField,
                 formOverlay, schemaRequest, nextId, pointer, dragMoves, sentSchema,
                 serverSchema, docPages, peVars, dpVars, ldVars, fpVars, idAtRequest>>

\* a toolbar button's click
selectFieldTypeStaysPlacing(type) ==
  /\ InDesign /\ ~pointer.down
  /\ fieldTypeToAdd' = type
  /\ isPlacingField' = (fieldTypeToAdd # type)
  /\ UNCHANGED <<stage, pdfLoad, currentPage, totalPages, currentScale, formFields,
                 activeField, pdIsDragging, pdStartX, pdStartY, formOverlay,
                 renderQueue, schemaRequest, nextId, pointer, dragMoves, sentSchema,
                 serverSchema, docPages, peVars, dpVars, ldVars, fpVars, idAtRequest>>

selectFieldType(type) ==
  /\ InDesign /\ ~pointer.down
  /\ IF fieldTypeToAdd = type
     THEN /\ fieldTypeToAdd' = "null"
          /\ isPlacingField' = FALSE
     ELSE /\ fieldTypeToAdd' = type
          /\ isPlacingField' = TRUE
  /\ UNCHANGED <<stage, pdfLoad, currentPage, totalPages, currentScale, formFields,
                 activeField, pdIsDragging, pdStartX, pdStartY, formOverlay,
                 renderQueue, schemaRequest, nextId, pointer, dragMoves, sentSchema,
                 serverSchema, docPages, peVars, dpVars, ldVars, fpVars, idAtRequest>>


\* handleOverlayClick: a click offset on the overlay, in unscaled page space
PageCoordinateUnscaled(c, s) == RatInt(c)

PageCoordinate(c, s) == RatDiv(RatInt(c), ScaleOf(s))

\* addFormField(type, x, y, page): the new field object
NewField(type, x, y, page) ==
  [id |-> nextId,
   name |-> DefaultName(Capitalize(type), 0, Len(formFields) + 1),
   type |-> type, x |-> x, y |-> y,
   width |-> fieldTypes(type).defaultWidth,
   height |-> fieldTypes(type).defaultHeight,
   page |-> page, required |-> FALSE, read_only |-> FALSE, default_value |-> ""]

\* mousedown on the overlay: handleOverlayMouseDown
MouseDown(p) ==
  /\ InDesign /\ ~pointer.down
  /\ pointer' = [down |-> TRUE, at |-> p, moved |-> FALSE]
  /\ LET k == ElementAt(formOverlay, p)
     IN  IF k # 0
         THEN /\ activeField' = selectField(formOverlay[k].id, TRUE)
              /\ pdIsDragging' = TRUE
              /\ pdStartX' = p[1]
              /\ pdStartY' = p[2]
         ELSE /\ activeField' = NullField
              /\ UNCHANGED <<pdIsDragging, pdStartX, pdStartY>>
  /\ UNCHANGED <<stage, pdfLoad, currentPage, totalPages, currentScale, formFields,
                 fieldTypeToAdd, isPlacingField, formOverlay, renderQueue,
                 schemaRequest, nextId, dragMoves, sentSchema, serverSchema, docPages, peVars, dpVars, ldVars, fpVars, idAtRequest>>

\* mousemove on the overlay with the button held: handleOverlayMouseMove
MouseMove(p) ==
  /\ InDesign /\ pointer.down /\ p # pointer.at
  /\ pointer' = [pointer EXCEPT !.at = p, !.moved = TRUE]
  /\ IF ~pdIsDragging \/ activeField.kind = "null"
     THEN UNCHANGED <<formFields, activeField, pdStartX, pdStartY, formOverlay, dragMoves>>
     ELSE LET deltaX == RatDiv(RatInt(p[1] - pdStartX), ScaleOf(currentScale))
              deltaY == RatDiv(RatInt(p[2] - pdStartY), ScaleOf(currentScale))
              old == ActiveObject
              new == [old EXCEPT !.x = RatAdd(old.x, deltaX), !.y = RatAdd(old.y, deltaY)]
          IN  /\ dragMoves < MaxDragMoves
              /\ dragMoves' = dragMoves + 1
              /\ IF activeField.kind = "ref"
                 THEN /\ formFields' = [formFields EXCEPT ![activeField.idx] = new]
                      /\ activeField' = activeField
                 ELSE /\ formFields' = formFields
                      /\ activeField' = ObjField(new)
              /\ pdStartX' = p[1]
              /\ pdStartY' = p[2]
              /\ formOverlay' = renderFormFields(formFields', currentPage, currentScale)
  /\ UNCHANGED <<stage, pdfLoad, currentPage, totalPages, currentScale, pdIsDragging,
                 fieldTypeToAdd, isPlacingField, renderQueue, schemaRequest, nextId,
                 sentSchema, serverSchema, docPages, peVars, dpVars, ldVars, fpVars, idAtRequest>>

\* mouseup after the pointer moved: handleOverlayMouseUp, no click follows
MouseUpAfterMove ==
  /\ InDesign /\ pointer.down /\ pointer.moved
  /\ pointer' = [down |-> FALSE, at |-> <<0, 0>>, moved |-> FALSE]
  /\ pdIsDragging' = FALSE
  /\ UNCHANGED <<stage, pdfLoad, currentPage, totalPages, currentScale, formFields,
                 activeField, pdStartX, pdStartY, fieldTypeToAdd, isPlacingField,
                 formOverlay, renderQueue, schemaRequest, nextId, dragMoves,
                 sentSchema, serverSchema, docPages, peVars, dpVars, ldVars, fpVars, idAtRequest>>

\* mouseup in place on a field element: handleOverlayMouseUp, then the
\* element's click listener (selectField(field.id), stopPropagation)
ClickFieldElement ==
  /\ InDesign /\ pointer.down /\ ~pointer.moved
  /\ ElementAt(formOverlay, pointer.at) # 0
  /\ pointer' = [down |-> FALSE, at |-> <<0, 0>>, moved |-> FALSE]
  /\ pdIsDragging' = FALSE
  /\ activeField' = selectField(formOverlay[ElementAt(formOverlay, pointer.at)].id, FALSE)
  /\ UNCHANGED <<stage, pdfLoad, currentPage, totalPages, currentScale, formFields,
                 pdStartX, pdStartY, fieldTypeToAdd, isPlacingField, formOverlay,
                 renderQueue, schemaRequest, nextId, dragMoves, sentSchema,
                 serverSchema, docPages, peVars, dpVars, ldVars, fpVars, idAtRequest>>

\* mouseup in place on the bare overlay outside placement mode:
\* handleOverlayMouseUp, then handleOverlayClick returns at once
ClickOverlayIdle ==
  /\ InDesign /\ pointer.down /\ ~pointer.moved
  /\ ElementAt(formOverlay, pointer.at) = 0
  /\ ~isPlacingField \/ fieldTypeToAdd = "null"
  /\ pointer' = [down |-> FALSE, at |-> <<0, 0>>, moved |-> FALSE]
  /\ pdIsDragging' = FALSE
  /\ UNCHANGED <<stage, pdfLoad, currentPage, totalPages, currentScale, formFields,
                 activeField, pdStartX, pdStartY, fieldTypeToAdd, isPlacingField,
                 formOverlay, renderQueue, schemaRequest, nextId, dragMoves,
                 sentSchema, serverSchema, docPages, peVars, dpVars, ldVars, fpVars, idAtRequest>>

\* mouseup in place on the bare overlay in placement mode:
\* handleOverlayMouseUp, then handleOverlayClick with addFormField
handleOverlayClick ==
  /\ InDesign /\ pointer.down /\ ~pointer.moved
  /\ ElementAt(formOverlay, pointer.at) = 0
  /\ isPlacingField /\ fieldTypeToAdd # "null"
  /\ CanRender /\ Len(formFields) < MaxFields /\ nextId <= MaxIds
  /\ pointer' = [down |-> FALSE, at |-> <<0, 0>>, moved |-> FALSE]
  /\ pdIsDragging' = FALSE
  /\ LET x == PageCoordinate(pointer.at[1], currentScale)
         y == PageCoordinate(pointer.at[2], currentScale)
     IN  formFields' = Append(formFields, NewField(fieldTypeToAdd, x, y, currentPage))
  /\ nextId' = nextId + 1
  /\ activeField' = RefField(Len(formFields'))
  /\ formOverlay' = renderFormFields(formFields', currentPage, currentScale)
  /\ fieldTypeToAdd' = "null"
  /\ isPlacingField' = FALSE
  /\ renderQueue' = renderPage(renderQueue, currentPage)
  /\ UNCHANGED <<stage, pdfLoad, currentPage, totalPages, currentScale, pdStartX,
                 pdStartY, schemaRequest, dragMoves, sentSchema, serverSchema, docPages, peVars, dpVars, ldVars, fpVars, idAtRequest>>

\* change of a property-panel control: updateSelectedField
updateSelectedField(in) ==
  /\ InDesign /\ ~pointer.down /\ activeField.kind # "null" /\ CanRender
  /\ LET new == SetKey(SetKey(SetKey(ActiveObject, "name", in.name),
                              "required", in.required), "read_only", in.read_only)
         mutated == IF activeField.kind = "ref"
                    THEN [formFields EXCEPT ![activeField.idx] = new]
                    ELSE formFields
         index == FindIndexById(mutated, FieldId(new))
     IN  IF index # 0
         THEN /\ formFields' = [mutated EXCEPT ![index] = new]
              /\ activeField' = IF activeField.kind = "ref" THEN activeField
                                ELSE RefField(index)
         ELSE /\ formFields' = mutated
              /\ activeField' = IF activeField.kind = "ref" THEN activeField
                                ELSE ObjField(new)
  /\ renderQueue' = renderPage(renderQueue, currentPage)
  /\ UNCHANGED <<stage, pdfLoad, currentPage, totalPages, currentScale, pdIsDragging,
                 pdStartX, pdStartY, fieldTypeToAdd, isPlacingField, formOverlay,
                 schemaRequest, nextId, pointer, dragMoves, sentSchema, serverSchema, docPages, peVars, dpVars, ldVars, fpVars, idAtRequest>>

\* #delete-field click: deleteSelectedField
deleteSelectedField ==
  /\ InDesign /\ ~pointer.down /\ activeField.kind # "null"
  /\ LET fieldIndex == FindIndexById(formFields, FieldId(ActiveObject))
     IN  formFields' = IF fieldIndex # 0 THEN RemoveAt(formFields, fieldIndex)
                       ELSE formFields
  /\ formOverlay' = renderFormFields(formFields', currentPage, currentScale)
  /\ activeField' = NullField
  /\ UNCHANGED <<stage, pdfLoad, currentPage, totalPages, currentScale, pdIsDragging,
                 pdStartX, pdStartY, fieldTypeToAdd, isPlacingField, renderQueue,
                 schemaRequest, nextId, pointer, dragMoves, sentSchema, serverSchema, docPages, peVars, dpVars, ldVars, fpVars, idAtRequest>>

\* saveForm: the descriptor written for one field
CleanCopy(field) ==
  [name |-> field.name, type |-> field.type,
   x |-> field.x, y |-> field.y, width |-> field.width, height |-> field.height,
   page |-> field.page, required |-> field.required,
   default_value |-> field.default_value]

schemaToSave(fields) == [i \in 1..Len(fields) |-> CleanCopy(fields[i])]

\* #save-button click: saveForm posts the schema; the server stores it when
\* the request succeeds
saveForm(ok) ==
  /\ InDesign /\ ~pointer.down
  /\ sentSchema' = [sent |-> TRUE, fields |-> schemaToSave(formFields)]
  /\ serverSchema' = IF ok THEN schemaToSave(formFields) ELSE serverSchema
  /\ stage' = "design_saved"
  /\ UNCHANGED <<pdfLoad, currentPage, totalPages, currentScale, formFields,
                 activeField, pdIsDragging, pdStartX, pdStartY, fieldTypeToAdd,
                 isPlacingField, formOverlay, renderQueue, schemaRequest, nextId,
                 pointer, dragMoves, docPages, peVars, dpVars, ldVars, fpVars, idAtRequest>>

\* the state of the portfolio design page when its script has run
InitDesignPage ==
  /\ pdfLoad = "pending"
  /\ currentPage = 1
  /\ totalPages = 0
  /\ currentScale = 10
  /\ formFields = <<>>
  /\ activeField = NullField
  /\ pdIsDragging = FALSE
  /\ pdStartX = 0
  /\ pdStartY = 0
  /\ fieldTypeToAdd = "null"
  /\ isPlacingField = FALSE
  /\ formOverlay = <<>>
  /\ renderQueue = <<>>
  /\ schemaRequest = "none"
  /\ nextId = 1
  /\ pointer = [down |-> FALSE, at |-> <<0, 0>>, moved |-> FALSE]
  /\ dragMoves = 0
  /\ sentSchema = [sent |-> FALSE, fields |-> <<>>]
  /\ idAtRequest = 0

DesignNext ==
  \/ LoadPDFResolved
  \/ \E i \in 1..MaxPending : RenderResolved(i)
  \/ \E ok \in BOOLEAN : SchemaResponse(ok)
  \/ ZoomIn
  \/ ZoomOut
  \/ PrevPage
  \/ NextPage
  \/ \E in \in PageInputs : PageNumberChange(in)
  \/ \E type \in PortfolioTypes : selectFieldType(type)
  \/ \E p \in Points : MouseDown(p)
  \/ \E p \in Points : MouseMove(p)
  \/ MouseUpAfterMove
  \/ ClickFieldElement
  \/ ClickOverlayIdle
  \/ handleOverlayClick
  \/ \E in \in PanelInputs : updateSelectedField(in)
  \/ deleteSelectedField
  \/ \E ok \in BOOLEAN : saveForm(ok)


(***************************************************************************)
(* editpage_portfolio.js                                                   *)
(***************************************************************************)
InEdit == stage = "edit_portfolio"

\* the indices of the fields overlayFormFields(pageNumber) keeps
FieldsOnPage(fields, pageNumber) ==
  LET F[i \in 0..Len(fields)] ==
        IF i = 0 THEN <<>>
        ELSE IF fields[i].page = pageNumber - 1
             THEN Append(F[i - 1], i)
             ELSE F[i - 1]
  IN  F[Len(fields)]

\* the element overlayFormFields creates for a field: a checkbox, a date or
\* a text input, with value = field.default_value || ''
InputElement(field) ==
  [type    |-> IF field.type \in {"checkbox", "date"} THEN field.type ELSE "text",
   value   |-> IF "default_value" \in DOMAIN field THEN field.default_value ELSE "",
   checked |-> FALSE]

\* fieldInputs after overlayFormFields(pageNumber): the entries of the
\* fields on the page are deleted, then every field on the page that gets an
\* <input> stores it under its name (a later field of the same name wins);
\* a signature field stores nothing before its timer fires
overlayFormFields(inputs, fields, pageNumber) ==
  LET onPage == FieldsOnPage(fields, pageNumber)
      is == {onPage[k] : k \in 1..Len(onPage)}
      names == {fields[i].name : i \in is}
      withInput == {i \in is : fields[i].type # "signature"}
      stored == {fields[i].name : i \in withInput}
      last(nm) == CHOOSE i \in withInput :
                    /\ fields[i].name = nm
                    /\ \A j \in withInput : fields[j].name = nm => j <= i
  IN  [nm \in ((DOMAIN inputs) \ names) \cup stored |->
         IF nm \in stored THEN InputElement(fields[last(nm)]) ELSE inputs[nm]]

\* portfolioEditor.renderPage(pageNumber), the part that runs in the caller's
\* turn: nothing without a document, else the page number is clamped and
\* stored and overlayFormFields(pageNumber) runs.  cur is currentPage as the
\* caller left it
peRenderPage(loaded, total, cur, pageNumber) ==
  IF ~loaded
  THEN /\ peCurrentPage' = cur
       /\ UNCHANGED <<fieldInputs, peOverlay>>
  ELSE LET n == IF pageNumber < 1 THEN 1
                ELSE IF pageNumber > total THEN total ELSE pageNumber
       IN  /\ peCurrentPage' = n
           /\ fieldInputs' = overlayFormFields(fieldInputs, peFormFields, n)
           /\ peOverlay' = FieldsOnPage(peFormFields, n)

\* the portfolio edit page of the same file is opened next; the design
\* page's script state is gone
OpenEditPage ==
  /\ stage = "design_saved"
  /\ stage' = "edit_portfolio"
  /\ pdfLoad' = "pending"
  /\ currentPage' = 1
  /\ totalPages' = 0
  /\ currentScale' = 10
  /\ formFields' = <<>>
  /\ activeField' = NullField
  /\ pdIsDragging' = FALSE
  /\ pdStartX' = 0
  /\ pdStartY' = 0
  /\ fieldTypeToAdd' = "null"
  /\ isPlacingField' = FALSE
  /\ formOverlay' = <<>>
  /\ renderQueue' = <<>>
  /\ schemaRequest' = "none"
  /\ nextId' = 1
  /\ pointer' = [down |-> FALSE, at |-> <<0, 0>>, moved |-> FALSE]
  /\ dragMoves' = 0
  /\ sentSchema' = [sent |-> FALSE, fields |-> <<>>]
  /\ UNCHANGED <<serverSchema, docPages, peVars, dpVars, ldVars, fpVars, idAtRequest>>

\* loadPDF: getDocument resolved; renderPage(currentPage), loadFormFields()
PeLoadPDFResolved ==
  /\ InEdit /\ peLoad = "pending"
  /\ peLoad' = "loaded"
  /\ peTotalPages' = docPages
  /\ peRenderPage(TRUE, docPages, peCurrentPage, peCurrentPage)
  /\ peSchemaRequest' = "pending"
  /\ UNCHANGED <<stage, pdVars, peCurrentScale, peFormFields, entered, formValues,
                 serverSchema, docPages, dpVars, ldVars, fpVars, idAtRequest>>

\* loadFormFields: the schema request answered with the stored schema, or
\* failed
PeSchemaResponse(ok) ==
  /\ InEdit /\ peSchemaRequest = "pending"
  /\ peSchemaRequest' = "done"
  /\ IF ok
     THEN /\ peFormFields' = serverSchema
          /\ IF Len(serverSchema) = 0
             THEN UNCHANGED <<fieldInputs, peOverlay>>
             ELSE /\ fieldInputs' = overlayFormFields(fieldInputs, serverSchema, peCurrentPage)
                  /\ peOverlay' = FieldsOnPage(serverSchema, peCurrentPage)
     ELSE UNCHANGED <<peFormFields, fieldInputs, peOverlay>>
  /\ UNCHANGED <<stage, pdVars, peLoad, peCurrentPage, peTotalPages, peCurrentScale,
                 entered, formValues, serverSchema, docPages, dpVars, ldVars, fpVars, idAtRequest>>

\* #portfolio-prev-page click
PePrevPage ==
  /\ InEdit /\ peCurrentPage > 1
  /\ peRenderPage(peLoad = "loaded", peTotalPages, peCurrentPage - 1, peCurrentPage - 1)
  /\ UNCHANGED <<stage, pdVars, peLoad, peTotalPages, peCurrentScale, peFormFields,
                 peSchemaRequest, entered, formValues, serverSchema, docPages,
                 dpVars, ldVars, fpVars, idAtRequest>>

\* #portfolio-next-page click
PeNextPage ==
  /\ InEdit /\ peCurrentPage < peTotalPages
  /\ peRenderPage(peLoad = "loaded", peTotalPages, peCurrentPage + 1, peCurrentPage + 1)
  /\ UNCHANGED <<stage, pdVars, peLoad, peTotalPages, peCurrentScale, peFormFields,
                 peSchemaRequest, entered, formValues, serverSchema, docPages,
                 dpVars, ldVars, fpVars, idAtRequest>>

\* #portfolio-zoom-in click
PeZoomIn ==
  /\ InEdit /\ peCurrentScale < 10 + MaxZoomIn
  /\ peCurrentScale' = peCurrentScale + 1
  /\ peRenderPage(peLoad = "loaded", peTotalPages, peCurrentPage, peCurrentPage)
  /\ UNCHANGED <<stage, pdVars, peLoad, peTotalPages, peFormFields, peSchemaRequest,
                 entered, formValues, serverSchema, docPages, dpVars, ldVars, fpVars, idAtRequest>>

\* #portfolio-zoom-out click
PeZoomOut ==
  /\ InEdit /\ peCurrentScale > 10 - MaxZoomOut
  /\ peCurrentScale > 2
  /\ peCurrentScale' = peCurrentScale - 1
  /\ peRenderPage(peLoad = "loaded", peTotalPages, peCurrentPage, peCurrentPage)
  /\ UNCHANGED <<stage, pdVars, peLoad, peTotalPages, peFormFields, peSchemaRequest,
                 entered, formValues, serverSchema, docPages, dpVars, ldVars, fpVars, idAtRequest>>

\* whether the <input> of the k-th container of the overlay is the element
\* fieldInputs holds under the field's name
IsStoredInput(k) ==
  LET i == peOverlay[k]
      nm == peFormFields[i].name
  IN  /\ peFormFields[i].type # "signature"
      /\ nm \in DOMAIN fieldInputs
      /\ \A j \in (k + 1)..Len(peOverlay) :
            peFormFields[peOverlay[j]].name = nm => peFormFields[peOverlay[j]].type = "signature"

\* the user types v into the text or date input of the k-th container
TypeValue(k, v) ==
  /\ InEdit /\ k \in 1..Len(peOverlay)
  /\ peFormFields[peOverlay[k]].type \notin {"checkbox", "signature"}
  /\ fieldInputs' = IF IsStoredInput(k)
                     THEN [fieldInputs EXCEPT ![peFormFields[peOverlay[k]].name].value = v]
                     ELSE fieldInputs
  /\ entered' = [i \in DOMAIN entered \cup {peOverlay[k]} |->
                   IF i = peOverlay[k] THEN [str |-> v] ELSE entered[i]]
  /\ UNCHANGED <<stage, pdVars, peLoad, peCurrentPage, peTotalPages, peCurrentScale,
                 peFormFields, peOverlay, peSchemaRequest, formValues, serverSchema,
                 docPages, dpVars, ldVars, fpVars, idAtRequest>>

\* the user clicks the checkbox of the k-th container
ToggleCheckbox(k) ==
  /\ InEdit /\ k \in 1..Len(peOverlay)
  /\ peFormFields[peOverlay[k]].type = "checkbox"
  /\ IsStoredInput(k)
  /\ LET nm == peFormFields[peOverlay[k]].name
         now == ~fieldInputs[nm].checked
     IN  /\ fieldInputs' = [fieldInputs EXCEPT ![nm].checked = now]
         /\ entered' = [i \in DOMAIN entered \cup {peOverlay[k]} |->
                          IF i = peOverlay[k] THEN [bool |-> now] ELSE entered[i]]
  /\ UNCHANGED <<stage, pdVars, peLoad, peCurrentPage, peTotalPages, peCurrentScale,
                 peFormFields, peOverlay, peSchemaRequest, formValues, serverSchema,
                 docPages, dpVars, ldVars, fpVars, idAtRequest>>

\* collectFormValues: one entry per key of fieldInputs
collectFormValues(inputs) ==
  [nm \in DOMAIN inputs |->
     IF inputs[nm].type = "checkbox" THEN [bool |-> inputs[nm].checked]
     ELSE [str |-> inputs[nm].value]]

\* #confirm-save click: saveFilledForm collects the values and posts them
saveFilledForm ==
  /\ InEdit
  /\ formValues' = [sent |-> TRUE, values |-> collectFormValues(fieldInputs)]
  /\ stage' = "edit_saved"
  /\ UNCHANGED <<pdVars, peLoad, peCurrentPage, peTotalPages, peCurrentScale,
                 peFormFields, fieldInputs, peOverlay, peSchemaRequest, entered,
                 serverSchema, docPages, dpVars, ldVars, fpVars, idAtRequest>>

\* the state of the portfolio edit page when its script has run
InitEditPage ==
  /\ peLoad = "pending"
  /\ peCurrentPage = 1
  /\ peTotalPages = 0
  /\ peCurrentScale = 10
  /\ peFormFields = <<>>
  /\ fieldInputs = <<>>
  /\ peOverlay = <<>>
  /\ peSchemaRequest = "none"
  /\ entered = <<>>
  /\ formValues = [sent |-> FALSE, values |-> <<>>]

EditNext ==
  \/ PeLoadPDFResolved
  \/ \E ok \in BOOLEAN : PeSchemaResponse(ok)
  \/ PePrevPage
  \/ PeNextPage
  \/ PeZoomIn
  \/ PeZoomOut
  \/ \E k \in 1..MaxFields, v \in ValueTexts : TypeValue(k, v)
  \/ \E k \in 1..MaxFields : ToggleCheckbox(k)
  \/ saveFilledForm

(***************************************************************************)
(* designpage.js                                                           *)
(***************************************************************************)
\* Every object of placedFields carries two keys the source does not have:
\* uid, the identity of the JavaScript object, and placedAt, the canvas pixel
\* its top-left corner was placed or pasted at.  No handler reads them.

\* field types of the toolbar that the model places
DesignTypes == {"text", "checkbox"}

\* the fixed render scale, in tenths
scale == 12

\* the size of a page of the document in PDF points, and of the canvas that
\* renderPage sizes to the viewport of that page
PageSize == [width |-> 612, height |-> 792]
Canvas == [width  |-> (PageSize.width * scale) \div 10,
           height |-> (PageSize.height * scale) \div 10]

InDesignPage == stage = "design"

\* ((e.clientX - rect.left) / rect.width) * pdfCanvas.width
CanvasCoord(offset, rectLen, canvasLen) == (offset * canvasLen) \div rectLen

\* newField.name + '_copy'
CopyName(name) == [name EXCEPT !.copies = name.copies + 1]

\* the empty string as the value of #fieldName
NoName == CustomName("")

\* page: pageNum - 1, the page index a placed or pasted field gets
PageIndexOneBased(num) == num

PageIndex(num) == num - 1

isPointInField(x, y, field) ==
  /\ x >= field.x
  /\ x <= field.x + field.width
  /\ y >= field.y
  /\ y <= field.y + field.height

\* the field of a non-empty set of hit indices that the loop reaches first
FirstPlacedHit(hits) == CHOOSE i \in hits : \A j \in hits : i <= j

TopmostHit(hits) == CHOOSE i \in hits : \A j \in hits : j <= i

\* getFieldAtPosition(x, y): the JavaScript index of the field hit, or -1
getFieldAtPosition(fields, num, x, y) ==
  LET currentPageFields == {i \in 1..Len(fields) : fields[i].page = num - 1}
      hits == {i \in currentPageFields : isPointInField(x, y, fields[i])}
  IN  IF hits = {} THEN -1 ELSE TopmostHit(hits) - 1

\* placedFields.forEach((f, i) => f.selected = (i === fieldIndex))
SelectOnly(fields, fieldIndex) ==
  [i \in 1..Len(fields) |-> [fields[i] EXCEPT !.selected = (i - 1 = fieldIndex)]]

\* placedFields.findIndex(field => field.selected)
SelectedIndex(fields) ==
  LET sel == {i \in 1..Len(fields) : fields[i].selected}
  IN  IF sel = {} THEN -1 ELSE (CHOOSE i \in sel : \A j \in sel : i <= j) - 1

\* placedFields.splice(selectedIndex, 1)
SpliceFrom(fields, index) == SubSeq(fields, 1, index)

SpliceOne(fields, index) ==
  [j \in 1..(Len(fields) - 1) |-> IF j <= index THEN fields[j] ELSE fields[j + 1]]

\* the index of the field object the properties panel's handlers are bound
\* to, 0 when they are null or the object is no longer in placedFields
PanelIndex(fields, uid) ==
  LET hit == {i \in 1..Len(fields) : fields[i].uid = uid}
  IN  IF uid = 0 \/ hit = {} THEN 0 ELSE CHOOSE i \in hit : TRUE

\* default sizes of the click handler
DefaultSize(type) ==
  CASE type = "checkbox"  -> [width |-> 20, height |-> 20]
    [] type = "signature" -> [width |-> 200, height |-> 40]
    [] OTHER              -> [width |-> 150, height |-> 24]

\* Math.max(20, v)
Max20Unclamped(v) == v

Max20(v) == IF v < 20 THEN 20 ELSE v

\* answers to prompt('Field name:', defaultName)
PromptAnswers == {"accept", "cancel"}

\* renderPage(num) up to its first await: without a document nothing, else
\* pageNum = num
dpRenderPage(num) == IF dpLoad = "loaded" THEN num ELSE pageNum

\* loadPDF resolved: pageNum = 1, renderPage(pageNum), setupPageNavigation()
DpLoadPDFResolved ==
  /\ InDesignPage /\ dpLoad = "pending"
  /\ dpLoad' = "loaded"
  /\ pageNum' = 1
  /\ UNCHANGED <<stage, currentFieldType, placedFields, gestureVars, copiedField,
                 fieldNameInput, panelField, nextUid, gestures, edits,
                 savedFields, notDp>>

\* #prev-page click
DpPrevPage ==
  /\ InDesignPage /\ dpLoad = "loaded"
  /\ pageNum > 1
  /\ pageNum' = pageNum - 1
  /\ UNCHANGED <<stage, dpLoad, currentFieldType, placedFields, gestureVars, copiedField,
                 fieldNameInput, panelField, nextUid, gestures, edits,
                 savedFields, notDp>>

\* #next-page click
DpNextPage ==
  /\ InDesignPage /\ dpLoad = "loaded"
  /\ pageNum < docPages
  /\ pageNum' = pageNum + 1
  /\ UNCHANGED <<stage, dpLoad, currentFieldType, placedFields, gestureVars, copiedField,
                 fieldNameInput, panelField, nextUid, gestures, edits,
                 savedFields, notDp>>

\* #page-number change
DpPageInput(in) ==
  /\ InDesignPage /\ dpLoad = "loaded"
  /\ pageNum' = IF in.nan \/ in.val < 1 \/ in.val > docPages THEN pageNum ELSE in.val
  /\ UNCHANGED <<stage, dpLoad, currentFieldType, placedFields, gestureVars, copiedField,
                 fieldNameInput, panelField, nextUid, gestures, edits,
                 savedFields, notDp>>

\* a toolbar button's click: selectFieldType(type)
dpSelectFieldType(type) ==
  /\ InDesignPage /\ ~isDragging /\ ~isResizing
  /\ currentFieldType' = type
  /\ UNCHANGED <<stage, dpLoad, pageNum, placedFields, gestureVars, copiedField,
                 fieldNameInput, panelField, nextUid, gestures, edits,
                 savedFields, notDp>>

\* updateFieldPropertiesPanel(fieldIndex) on the fields given: the value of
\* #fieldName, and the field its handlers are bound to
PanelFor(fields, fieldIndex) ==
  IF fieldIndex < 0 \/ fieldIndex >= Len(fields)
  THEN [name |-> fieldNameInput, field |-> panelField]
  ELSE [name |-> fields[fieldIndex + 1].name, field |-> fields[fieldIndex + 1].uid]

\* click on the canvas in placement mode (the mousedown before it returns at
\* once, the mouseup leaves the cleared flags as they are)
CanvasClick(p, shiftKey, answer) ==
  /\ InDesignPage /\ ~isDragging /\ ~isResizing
  /\ currentFieldType # "null"
  /\ LET x == CanvasCoord(p[1], Canvas.width, Canvas.width)
         y == CanvasCoord(p[2], Canvas.height, Canvas.height)
         fieldIndex == getFieldAtPosition(placedFields, pageNum, x, y)
         fieldName == IF fieldNameInput # NoName THEN fieldNameInput
                      ELSE DefaultName(currentFieldType, pageNum, Len(placedFields) + 1)
         newField == [type |-> currentFieldType, name |-> fieldName, x |-> x, y |-> y,
                      width |-> DefaultSize(currentFieldType).width,
                      height |-> DefaultSize(currentFieldType).height,
                      page |-> PageIndex(pageNum), required |-> FALSE, readonly |-> FALSE,
                      fontSize |-> 12, selected |-> TRUE,
                      uid |-> nextUid, placedAt |-> <<x, y>>]
     IN  IF fieldIndex # -1
         THEN \* selectField(fieldIndex)
              /\ placedFields' = SelectOnly(placedFields, fieldIndex)
              /\ fieldNameInput' = PanelFor(placedFields, fieldIndex).name
              /\ panelField' = PanelFor(placedFields, fieldIndex).field
              /\ pageNum' = dpRenderPage(pageNum)
              /\ UNCHANGED <<currentFieldType, nextUid>>
         ELSE IF fieldNameInput = NoName /\ answer = "cancel"
         THEN UNCHANGED <<placedFields, fieldNameInput, panelField, pageNum,
                             currentFieldType, nextUid>>
         ELSE /\ Len(placedFields) < MaxPlaced /\ nextUid <= MaxIds
              /\ placedFields' = Append(SelectOnly(placedFields, -1), newField)
              /\ nextUid' = nextUid + 1
              /\ fieldNameInput' = fieldName
              /\ panelField' = nextUid
              /\ pageNum' = dpRenderPage(pageNum)
              /\ currentFieldType' = IF shiftKey THEN currentFieldType ELSE "null"
  /\ UNCHANGED <<stage, dpLoad, gestureVars, copiedField, gestures, edits,
                 savedFields, notDp>>

\* mousedown on the canvas outside placement mode
CanvasMouseDown(p) ==
  /\ InDesignPage /\ ~isDragging /\ ~isResizing
  /\ currentFieldType = "null"
  /\ LET x == CanvasCoord(p[1], Canvas.width, Canvas.width)
         y == CanvasCoord(p[2], Canvas.height, Canvas.height)
         fieldIndex == getFieldAtPosition(placedFields, pageNum, x, y)
     IN  IF fieldIndex # -1
         THEN LET field == placedFields[fieldIndex + 1]
                  isNearRight == Abs((field.x + field.width) - x) < 8
                  isNearBottom == Abs((field.y + field.height) - y) < 8
                  isNearLeft == Abs(field.x - x) < 8
                  isNearTop == Abs(field.y - y) < 8
                  resizing == isNearRight \/ isNearBottom \/ isNearLeft \/ isNearTop
              IN  /\ gestures < MaxGestures
                  /\ gestures' = gestures + 1
                  /\ isResizing' = resizing
                  /\ isDragging' = ~resizing
                  /\ resizeDirection' =
                       IF resizing
                       THEN [e |-> isNearRight, s |-> isNearBottom,
                             w |-> isNearLeft, n |-> isNearTop]
                       ELSE resizeDirection
                  /\ originalX' = field.x
                  /\ originalY' = field.y
                  /\ originalWidth' = IF resizing THEN field.width ELSE originalWidth
                  /\ originalHeight' = IF resizing THEN field.height ELSE originalHeight
                  /\ startX' = x
                  /\ startY' = y
                  /\ dragFieldIndex' = fieldIndex
                  /\ grabbed' = [uid |-> field.uid, at |-> <<field.x, field.y>>,
                                  pointer |-> <<x, y>>]
                  /\ placedFields' = SelectOnly(placedFields, fieldIndex)
                  /\ fieldNameInput' = PanelFor(placedFields, fieldIndex).name
                  /\ panelField' = PanelFor(placedFields, fieldIndex).field
                  /\ pageNum' = dpRenderPage(pageNum)
         ELSE /\ placedFields' = SelectOnly(placedFields, -1)
              /\ fieldNameInput' = NoName
              /\ panelField' = 0
              /\ pageNum' = IF \E i \in 1..Len(placedFields) : placedFields[i].selected
                            THEN dpRenderPage(pageNum) ELSE pageNum
              /\ UNCHANGED <<gestureVars, gestures>>
  /\ UNCHANGED <<stage, dpLoad, currentFieldType, copiedField, nextUid, edits, savedFields, notDp>>

\* mousemove on the canvas during a resize or a drag
CanvasMouseMove(p) ==
  /\ InDesignPage /\ (isResizing \/ isDragging) /\ dragFieldIndex # -1
  /\ dragFieldIndex < Len(placedFields)
  /\ edits < MaxEdits
  /\ edits' = edits + 1
  /\ LET x == CanvasCoord(p[1], Canvas.width, Canvas.width)
         y == CanvasCoord(p[2], Canvas.height, Canvas.height)
         field == placedFields[dragFieldIndex + 1]
         deltaX == x - startX
         deltaY == y - startY
         newWidthW == Max20(originalWidth - deltaX)
         newHeightN == Max20(originalHeight - deltaY)
         resizedX ==
           IF resizeDirection.e THEN [field EXCEPT !.width = Max20(originalWidth + deltaX)]
           ELSE IF resizeDirection.w
           THEN [field EXCEPT !.x = originalX + (originalWidth - newWidthW),
                              !.width = newWidthW]
           ELSE field
         resized ==
           IF resizeDirection.s
           THEN [resizedX EXCEPT !.height = Max20(originalHeight + deltaY)]
           ELSE IF resizeDirection.n
           THEN [resizedX EXCEPT !.y = originalY + (originalHeight - newHeightN),
                                 !.height = newHeightN]
           ELSE resizedX
         dragged == [field EXCEPT !.x = originalX + deltaX, !.y = originalY + deltaY]
     IN  placedFields' = [placedFields EXCEPT ![dragFieldIndex + 1] =
                            IF isResizing THEN resized ELSE dragged]
  /\ pageNum' = dpRenderPage(pageNum)
  /\ UNCHANGED <<stage, dpLoad, currentFieldType, gestureVars, copiedField,
                 fieldNameInput, panelField, nextUid, gestures,
                 savedFields, notDp>>

\* mouseup on the canvas, or mouseleave
CanvasMouseUp ==
  /\ InDesignPage /\ (isDragging \/ isResizing)
  /\ isDragging' = FALSE
  /\ isResizing' = FALSE
  /\ UNCHANGED <<stage, dpLoad, pageNum, currentFieldType, placedFields,
                 resizeDirection, dragFieldIndex, startX, startY, originalX, originalY,
                 originalWidth, originalHeight, grabbed, copiedField, fieldNameInput,
                 panelField, nextUid, gestures, edits, savedFields, notDp>>

\* keys the keydown handler has a case for
Keys ==
  {"delete", "backspace", "arrowleft", "arrowright", "arrowup", "arrowdown",
   "c", "v", "a"}

\* the keydown handler returns at once when the displayed page has no field,
\* and when no field is selected and the key is not 'a'
keydownReturns(fields, num, key) ==
  \/ ~\E i \in 1..Len(fields) : fields[i].page = num - 1
  \/ SelectedIndex(fields) = -1 /\ key # "a"

\* placedFields after the handler has run for Delete or Backspace
keydownDelete(fields, num, key) ==
  IF keydownReturns(fields, num, key) THEN fields
  ELSE SpliceOne(fields, SelectedIndex(fields))

\* keydown on the document
KeyDown(key, shiftKey, ctrlKey) ==
  /\ InDesignPage
  /\ LET selectedIndex == SelectedIndex(placedFields)
         field == placedFields[selectedIndex + 1]
         step == IF shiftKey THEN 10 ELSE 1
         pasted == [copiedField.field EXCEPT
                      !.name = CopyName(copiedField.field.name),
                      !.x = copiedField.field.x + 20,
                      !.y = copiedField.field.y + 20,
                      !.page = PageIndex(pageNum),
                      !.selected = TRUE,
                      !.uid = nextUid,
                      !.placedAt = <<copiedField.field.x + 20, copiedField.field.y + 20>>]
     IN  IF keydownReturns(placedFields, pageNum, key)
         THEN UNCHANGED <<placedFields, fieldNameInput, panelField, pageNum,
                          copiedField, nextUid, edits>>
         ELSE
           CASE key \in {"delete", "backspace"} ->
                   /\ placedFields' = keydownDelete(placedFields, pageNum, key)
                   /\ fieldNameInput' = NoName
                   /\ panelField' = 0
                   /\ pageNum' = dpRenderPage(pageNum)
                   /\ UNCHANGED <<copiedField, nextUid, edits>>
             [] key \in {"arrowleft", "arrowright", "arrowup", "arrowdown"} ->
                   /\ edits < MaxEdits
                   /\ edits' = edits + 1
                   /\ placedFields' =
                        [placedFields EXCEPT ![selectedIndex + 1] =
                           CASE key = "arrowleft"  -> [field EXCEPT !.x = field.x - step]
                             [] key = "arrowright" -> [field EXCEPT !.x = field.x + step]
                             [] key = "arrowup"    -> [field EXCEPT !.y = field.y - step]
                             [] key = "arrowdown"  -> [field EXCEPT !.y = field.y + step]]
                   /\ pageNum' = dpRenderPage(pageNum)
                   /\ UNCHANGED <<copiedField, fieldNameInput, panelField, nextUid>>
             [] key = "c" ->
                   /\ ctrlKey
                   /\ edits < MaxEdits
                   /\ edits' = edits + 1
                   /\ copiedField' = [present |-> TRUE, field |-> field]
                   /\ UNCHANGED <<placedFields, fieldNameInput, panelField, pageNum,
                                  nextUid>>
             [] key = "v" ->
                   /\ ctrlKey /\ copiedField.present
                   /\ Len(placedFields) < MaxPlaced /\ nextUid <= MaxIds
                   /\ placedFields' = Append(SelectOnly(placedFields, -1), pasted)
                   /\ nextUid' = nextUid + 1
                   /\ fieldNameInput' = pasted.name
                   /\ panelField' = nextUid
                   /\ pageNum' = dpRenderPage(pageNum)
                   /\ UNCHANGED <<copiedField, edits>>
             [] key = "a" ->
                   /\ ctrlKey
                   /\ placedFields' =
                        [i \in 1..Len(placedFields) |->
                           IF placedFields[i].page = pageNum - 1
                           THEN [placedFields[i] EXCEPT !.selected = TRUE]
                           ELSE placedFields[i]]
                   /\ pageNum' = dpRenderPage(pageNum)
                   /\ UNCHANGED <<copiedField, fieldNameInput, panelField, nextUid,
                                  edits>>
  /\ UNCHANGED <<stage, dpLoad, currentFieldType, gestureVars, gestures,
                 savedFields, notDp>>

\* input in #fieldName: the bound field, if any, is renamed
FieldNameInput(text) ==
  /\ InDesignPage /\ ~isDragging /\ ~isResizing
  /\ fieldNameInput # CustomName(text)
  /\ edits < MaxEdits
  /\ edits' = edits + 1
  /\ fieldNameInput' = CustomName(text)
  /\ LET i == PanelIndex(placedFields, panelField)
     IN  IF i = 0 THEN UNCHANGED <<placedFields, pageNum>>
         ELSE /\ placedFields' = [placedFields EXCEPT ![i].name = CustomName(text)]
              /\ pageNum' = dpRenderPage(pageNum)
  /\ UNCHANGED <<stage, dpLoad, currentFieldType, gestureVars, copiedField, panelField,
                 nextUid, gestures, savedFields, notDp>>

\* the fields in the order savePDFWithFields visits them: by page index,
\* and within a page in placedFields order; pages the document lacks are
\* skipped
SaveOrder(fields, numberOfPages) ==
  LET F[pg \in 0..numberOfPages] ==
        IF pg = 0 THEN <<>>
        ELSE F[pg - 1] \o SelectSeq(fields, LAMBDA f : f.page = pg - 1)
  IN  F[numberOfPages]

\* the widget addToPage creates for a field on a page of the given height
Widget(field, pageHeight) ==
  [name |-> field.name, type |-> field.type, page |-> field.page,
   x |-> field.x, y |-> pageHeight - field.y - field.height,
   width |-> field.width, height |-> field.height, uid |-> field.uid]

\* the widgets of the saved form: a field whose name the form already has
\* makes create...() throw and is left out
SavedWidgets(fields, numberOfPages, pageHeight) ==
  LET ord == SaveOrder(fields, numberOfPages)
      W[k \in 0..Len(ord)] ==
        IF k = 0 THEN <<>>
        ELSE IF \E j \in 1..Len(W[k - 1]) : W[k - 1][j].name = ord[k].name
             THEN W[k - 1]
             ELSE Append(W[k - 1], Widget(ord[k], pageHeight))
  IN  W[Len(ord)]

\* #confirm-save click: savePDFWithFields
savePDFWithFields ==
  /\ InDesignPage /\ dpLoad = "loaded" /\ ~isDragging /\ ~isResizing
  /\ savedFields' = [saved |-> TRUE,
                     widgets |-> SavedWidgets(placedFields, docPages, PageSize.height)]
  /\ stage' = "design_saved_pdf"
  /\ UNCHANGED <<dpLoad, pageNum, currentFieldType, placedFields, gestureVars,
                 copiedField, fieldNameInput, panelField, nextUid, gestures, edits, notDp>>

\* the state of the design page when its script has run
InitDesign ==
  /\ dpLoad = "pending"
  /\ pageNum = 1
  /\ currentFieldType = "null"
  /\ placedFields = <<>>
  /\ isDragging = FALSE
  /\ isResizing = FALSE
  /\ resizeDirection = [e |-> FALSE, s |-> FALSE, w |-> FALSE, n |-> FALSE]
  /\ dragFieldIndex = -1
  /\ startX = 0 /\ startY = 0
  /\ originalX = 0 /\ originalY = 0
  /\ originalWidth = 0 /\ originalHeight = 0
  /\ grabbed = [uid |-> 0, at |-> <<0, 0>>, pointer |-> <<0, 0>>]
  /\ copiedField = [present |-> FALSE]
  /\ fieldNameInput = NoName
  /\ panelField = 0
  /\ nextUid = 1
  /\ gestures = 0
  /\ edits = 0
  /\ savedFields = [saved |-> FALSE, widgets |-> <<>>]

NextDP ==
  \/ DpLoadPDFResolved
  \/ DpPrevPage
  \/ DpNextPage
  \/ \E in \in PageInputs : DpPageInput(in)
  \/ \E type \in DesignTypes : dpSelectFieldType(type)
  \/ \E p \in CanvasPoints, shiftKey \in BOOLEAN, answer \in PromptAnswers :
       CanvasClick(p, shiftKey, answer)
  \/ \E p \in CanvasPoints : CanvasMouseDown(p)
  \/ \E p \in CanvasPoints : CanvasMouseMove(p)
  \/ CanvasMouseUp
  \/ \E key \in Keys, shiftKey \in BOOLEAN, ctrlKey \in BOOLEAN :
       KeyDown(key, shiftKey, ctrlKey)
  \/ \E text \in NameTexts : FieldNameInput(text)
  \/ savePDFWithFields


(***************************************************************************)
(* editPage.js (fill page of a PDF that carries form fields)               *)
(***************************************************************************)
\* The canvas is kept as what has been painted on it since its size was
\* last set (setting canvas.width or canvas.height clears it): the pages
\* whose image was rendered and the pages whose field overlays were drawn.
\* fieldChangeHistory is not modelled.
InFill == stage = "fill"

\* field types and values of the widget annotations of a document
FillTypes == {"text", "checkbox"}
FillValues == {"", "Yes"}

\* extractFormFields: the fields found on the pages 1..n, in page order,
\* with value: field.fieldValue || '' and page: i
DocFields(n) ==
  UNION {
    {fs \in [1..len -> [id : 1..MaxFillFields, type : FillTypes,
                        value : FillValues, page : 1..n]] :
       /\ \A k \in 1..len : fs[k].id = k
       /\ \A k \in 1..(len - 1) : fs[k].page <= fs[k + 1].page}
    : len \in 0..MaxFillFields}

\* JavaScript truthiness of a string
Truthy(v) == v # ""

\* the markup of a checkbox that ignores the stored value unless it is 'Yes'
checkedAttributeYesOnly(field) == field.type = "checkbox" /\ field.value = "Yes"

\* updateFieldsPanel: ${field.value ? 'checked' : ''} in the markup of a
\* checkbox
checkedAttribute(field) == field.type = "checkbox" /\ Truthy(field.value)

\* updateFieldsPanel: one item per field, grouped under its page's section
\* with a 'View' button
updateFieldsPanel(fields) ==
  [k \in 1..Len(fields) |->
     [id |-> fields[k].id, page |-> fields[k].page, checked |-> checkedAttribute(fields[k])]]

\* saveFilledPDF: checkBox.check() when field.value === 'Yes' or === true,
\* else checkBox.uncheck(); the values here are strings, never true
saveChecks(field) == field.value = "Yes"

\* updateFieldValue(fieldId, value)
updateFieldValue(fields, fieldId, value) ==
  [k \in 1..Len(fields) |->
     IF fields[k].id = fieldId THEN [fields[k] EXCEPT !.value = value] ELSE fields[k]]

\* a caller's pageNum = num followed by renderPage(num) up to its first
\* await: nothing more without a document, else getPage(num) is asked
fpRenderPage(num) ==
  /\ fpPageNum' = num
  /\ fpRenders' = IF fpLoad = "pending"
                  THEN fpRenders
                  ELSE Append(fpRenders, [num |-> num, phase |-> "getPage"])

\* room for one more outstanding renderPage call
FpCanRender == Len(fpRenders) < MaxRenders

\* no change of #page-number was the last event
NotTyped == [is |-> FALSE, text |-> <<>>, from |-> 0]

\* loadPDF: getDocument resolved; totalPages, pageNum = 1, extractFormFields()
FpLoadPDFResolved ==
  /\ InFill /\ fpLoad = "pending"
  /\ fpLoad' = "extracting"
  /\ fpTotalPages' = docPages
  /\ fpPageNum' = 1
  /\ typed' = NotTyped
  /\ UNCHANGED <<stage, fpFormFields, fieldsPanel, fpRenders, fpCanvas,
                 pdVars, peVars, dpVars, ldVars, idAtRequest, serverSchema, docPages>>

\* loadPDF: extractFormFields() resolved with the document's fields, the
\* panel is built, renderPage(pageNum)
FpExtractResolved(fields) ==
  /\ InFill /\ fpLoad = "extracting" /\ FpCanRender
  /\ fields \in DocFields(fpTotalPages)
  /\ fpLoad' = "loaded"
  /\ fpFormFields' = fields
  /\ fieldsPanel' = updateFieldsPanel(fields)
  /\ fpRenderPage(fpPageNum)
  /\ typed' = NotTyped
  /\ UNCHANGED <<stage, fpTotalPages, fpCanvas,
                 pdVars, peVars, dpVars, ldVars, idAtRequest, serverSchema, docPages>>

\* renderPage: getPage(num) resolved; the canvas gets the viewport's size
\* and page.render starts
FpGetPageResolved(i) ==
  /\ InFill /\ i \in 1..Len(fpRenders) /\ fpRenders[i].phase = "getPage"
  /\ fpCanvas' = [pages |-> {}, overlays |-> {}]
  /\ fpRenders' = [fpRenders EXCEPT ![i].phase = "render"]
  /\ typed' = NotTyped
  /\ UNCHANGED <<stage, fpLoad, fpPageNum, fpTotalPages, fpFormFields, fieldsPanel,
                 pdVars, peVars, dpVars, ldVars, idAtRequest, serverSchema, docPages>>

\* renderPage: renderTask.promise resolved; drawFormFieldOverlays draws the
\* fields of pageNum, updateFieldsPanel()
FpRenderResolved(i) ==
  /\ InFill /\ i \in 1..Len(fpRenders) /\ fpRenders[i].phase = "render"
  /\ fpCanvas' = [pages |-> fpCanvas.pages \cup {fpRenders[i].num},
                  overlays |-> fpCanvas.overlays \cup {fpPageNum}]
  /\ fpRenders' = RemoveAt(fpRenders, i)
  /\ fieldsPanel' = updateFieldsPanel(fpFormFields)
  /\ typed' = NotTyped
  /\ UNCHANGED <<stage, fpLoad, fpPageNum, fpTotalPages, fpFormFields,
                 pdVars, peVars, dpVars, ldVars, idAtRequest, serverSchema, docPages>>

\* prevPage()
FpPrevPage ==
  /\ InFill /\ FpCanRender
  /\ fpPageNum > 1
  /\ fpRenderPage(fpPageNum - 1)
  /\ typed' = NotTyped
  /\ UNCHANGED <<stage, fpLoad, fpTotalPages, fpFormFields, fieldsPanel, fpCanvas,
                 pdVars, peVars, dpVars, ldVars, idAtRequest, serverSchema, docPages>>

\* a nextPage() that never returns early
nextPageNeverReturns == FALSE

\* nextPage(): if (pageNum >= totalPages) return
nextPageReturns == fpPageNum >= fpTotalPages

\* nextPage()
FpNextPage ==
  /\ InFill /\ FpCanRender
  /\ ~nextPageReturns
  /\ fpRenderPage(fpPageNum + 1)
  /\ typed' = NotTyped
  /\ UNCHANGED <<stage, fpLoad, fpTotalPages, fpFormFields, fieldsPanel, fpCanvas,
                 pdVars, peVars, dpVars, ldVars, idAtRequest, serverSchema, docPages>>

\* goToPage(num): if (num < 1 || num > totalPages) return
goToPageReturns(num) == num < 1 \/ num > fpTotalPages

\* #page-number change: parseInt of the box's text is a page of the document
pageInputValid(in) == ~in.nan /\ in.val >= 1 /\ in.val <= fpTotalPages

\* #page-number change: goToPage(page), or the box is reset to pageNum
FpPageInput(text) ==
  /\ InFill /\ FpCanRender
  /\ LET in == parseInt(text)
     IN  IF pageInputValid(in) /\ ~goToPageReturns(in.val)
         THEN fpRenderPage(in.val)
         ELSE UNCHANGED <<fpPageNum, fpRenders>>
  /\ typed' = [is |-> TRUE, text |-> text, from |-> fpPageNum]
  /\ UNCHANGED <<stage, fpLoad, fpTotalPages, fpFormFields, fieldsPanel, fpCanvas,
                 pdVars, peVars, dpVars, ldVars, idAtRequest, serverSchema, docPages>>

\* a section's 'View' button: data-page is the page of the section's fields
FpView(k) ==
  /\ InFill /\ FpCanRender
  /\ k \in 1..Len(fieldsPanel)
  /\ LET targetPage == fieldsPanel[k].page
     IN  IF targetPage >= 1 /\ targetPage <= fpTotalPages
         THEN fpRenderPage(targetPage)
         ELSE UNCHANGED <<fpPageNum, fpRenders>>
  /\ typed' = NotTyped
  /\ UNCHANGED <<stage, fpLoad, fpTotalPages, fpFormFields, fieldsPanel, fpCanvas,
                 pdVars, peVars, dpVars, ldVars, idAtRequest, serverSchema, docPages>>

\* the user clicks the checkbox of panel item k; its change handler stores
\* 'Yes' or 'Off' and re-renders when the field is on the page shown
FpToggleCheckbox(k) ==
  /\ InFill
  /\ k \in 1..Len(fieldsPanel)
  /\ \E j \in 1..Len(fpFormFields) :
       /\ fpFormFields[j].id = fieldsPanel[k].id
       /\ fpFormFields[j].type = "checkbox"
       /\ fpFormFields[j].page = fpPageNum => FpCanRender
       /\ fieldsPanel' = [fieldsPanel EXCEPT ![k].checked = ~fieldsPanel[k].checked]
       /\ fpFormFields' = updateFieldValue(fpFormFields, fieldsPanel[k].id,
                                           IF fieldsPanel'[k].checked THEN "Yes" ELSE "Off")
       /\ IF fpFormFields[j].page = fpPageNum
          THEN fpRenderPage(fpPageNum)
          ELSE UNCHANGED <<fpPageNum, fpRenders>>
  /\ typed' = NotTyped
  /\ UNCHANGED <<stage, fpLoad, fpTotalPages, fpCanvas,
                 pdVars, peVars, dpVars, ldVars, idAtRequest, serverSchema, docPages>>

InitFillPage ==
  /\ fpLoad = "pending"
  /\ fpPageNum = 1
  /\ fpTotalPages = 0
  /\ fpFormFields = <<>>
  /\ fieldsPanel = <<>>
  /\ fpRenders = <<>>
  /\ fpCanvas = [pages |-> {}, overlays |-> {}]
  /\ typed = NotTyped

NextFill ==
  \/ FpLoadPDFResolved
  \/ \E fields \in DocFields(MaxPages) : FpExtractResolved(fields)
  \/ \E i \in 1..MaxRenders : FpGetPageResolved(i)
  \/ \E i \in 1..MaxRenders : FpRenderResolved(i)
  \/ FpPrevPage
  \/ FpNextPage
  \/ \E text \in PageTexts : FpPageInput(text)
  \/ \E k \in 1..MaxFillFields : FpView(k)
  \/ \E k \in 1..MaxFillFields : FpToggleCheckbox(k)

(***************************************************************************)
(* Page loads: which PDF a page requests, given what the template wrote    *)
(* into it and what earlier pages left in the browser's localStorage.      *)
(* Two browsers (runs) with histories of their own open the same page.     *)
(***************************************************************************)
Runs == {"A", "B"}
Files == {1, 2}
LoadPages == {"design", "edit_portfolio"}

\* URLs; the portfolio of file f has id f
NoUrl == [kind |-> "none", id |-> 0]
TemplateUrl(f) == [kind |-> "file_url", id |-> f]
ServePdf(fileId) == [kind |-> "serve_pdf", id |-> fileId]
SurfaceFile(portfolioId) == [kind |-> "surface_file", id |-> portfolioId]

\* what the template wrote into the page of file f: fileUrl (window.fileUrl,
\* window.APP.fileUrl), data-file-id, window.APP.portfolioId; 0 and NoUrl
\* stand for a value the template left out
Identifiers ==
  {[fileUrl |-> IF u THEN TemplateUrl(f) ELSE NoUrl,
    fileId |-> IF d THEN f ELSE 0,
    portfolioId |-> IF q THEN f ELSE 0, file |-> f] :
     f \in Files, u \in BOOLEAN, d \in BOOLEAN, q \in BOOLEAN}

EmptyStorage == [pdfUrl |-> NoUrl, portfolioId |-> 0]

\* designpage.js DOMContentLoaded: fileUrl, else localStorage pdfUrl, else
\* /serve-pdf/<fileId>
designPageUrl(ls, ids) ==
  IF ids.fileUrl # NoUrl THEN ids.fileUrl
  ELSE IF ls.pdfUrl # NoUrl THEN ls.pdfUrl
  ELSE IF ids.fileId # 0 THEN ServePdf(ids.fileId)
  ELSE NoUrl

\* ... and only the constructed URL is stored
designPageStorage(ls, ids) ==
  IF ids.fileUrl = NoUrl /\ ls.pdfUrl = NoUrl /\ ids.fileId # 0
  THEN [ls EXCEPT !.pdfUrl = ServePdf(ids.fileId)]
  ELSE ls

\* portfolioEditor.initializeUI: formData.portfolioId
initializeUI(ls, ids) ==
  IF ids.portfolioId # 0 THEN ids.portfolioId ELSE ls.portfolioId

\* portfolioEditor.loadPDF; the page does nothing without a data-file-id
loadPDFUrl(ls, ids) ==
  LET portfolioId == initializeUI(ls, ids)
  IN  IF ids.fileId = 0 THEN NoUrl
      ELSE IF portfolioId # 0 THEN SurfaceFile(portfolioId)
      ELSE IF ids.fileUrl # NoUrl THEN ids.fileUrl
      ELSE IF ls.pdfUrl # NoUrl THEN ls.pdfUrl
      ELSE ServePdf(ids.fileId)

\* ... and when the document arrives the URL is stored
loadPDFStorage(ls, ids, ok) ==
  IF ok /\ loadPDFUrl(ls, ids) # NoUrl
  THEN [ls EXCEPT !.pdfUrl = loadPDFUrl(ls, ids)]
  ELSE ls

RequestedUrl(page, ls, ids) ==
  IF page = "design" THEN designPageUrl(ls, ids) ELSE loadPDFUrl(ls, ids)

StorageAfter(page, ls, ids, ok) ==
  IF page = "design" THEN designPageStorage(ls, ids) ELSE loadPDFStorage(ls, ids, ok)

InLoad == stage = "load" /\ ~opened.done

\* an earlier page load in one of the browsers
EarlierLoad(r, page, ids, ok) ==
  /\ InLoad /\ visits[r] < MaxVisits
  /\ visits' = [visits EXCEPT ![r] = visits[r] + 1]
  /\ localStorage' = [localStorage EXCEPT ![r] = StorageAfter(page, localStorage[r], ids, ok)]
  /\ UNCHANGED <<stage, requested, opened, pdVars, peVars, dpVars, fpVars, idAtRequest, serverSchema, docPages>>

\* designpage_portfolio.js saveForm, the response to an earlier save of the
\* template of file f: localStorage.setItem('portfolioId', data.portfolio_id)
SaveFormResponse(r, f) ==
  /\ InLoad /\ visits[r] < MaxVisits
  /\ visits' = [visits EXCEPT ![r] = visits[r] + 1]
  /\ localStorage' = [localStorage EXCEPT ![r].portfolioId = f]
  /\ UNCHANGED <<stage, requested, opened, pdVars, peVars, dpVars, fpVars, idAtRequest, serverSchema, docPages>>

\* the file manager's openInEditor / openInDesign: removeItem('pdfUrl')
OpenFromFileManager(r) ==
  /\ InLoad /\ visits[r] < MaxVisits
  /\ localStorage[r].pdfUrl # NoUrl
  /\ visits' = [visits EXCEPT ![r] = visits[r] + 1]
  /\ localStorage' = [localStorage EXCEPT ![r].pdfUrl = NoUrl]
  /\ UNCHANGED <<stage, requested, opened, pdVars, peVars, dpVars, fpVars, idAtRequest, serverSchema, docPages>>

\* both browsers open the same page of the same file
LoadPage(page, ids, ok) ==
  /\ InLoad
  /\ opened' = [done |-> TRUE, page |-> page, ids |-> ids]
  /\ requested' = [r \in Runs |-> RequestedUrl(page, localStorage[r], ids)]
  /\ localStorage' = [r \in Runs |-> StorageAfter(page, localStorage[r], ids, ok)]
  /\ UNCHANGED <<stage, visits, pdVars, peVars, dpVars, fpVars, idAtRequest, serverSchema, docPages>>

InitLoad ==
  /\ localStorage = [r \in Runs |-> EmptyStorage]
  /\ requested = [r \in Runs |-> NoUrl]
  /\ opened = [done |-> FALSE]
  /\ visits = [r \in Runs |-> 0]

NextLoad ==
  \/ \E r \in Runs, page \in LoadPages, ids \in Identifiers, ok \in BOOLEAN :
       EarlierLoad(r, page, ids, ok)
  \/ \E r \in Runs, f \in Files : SaveFormResponse(r, f)
  \/ \E r \in Runs : OpenFromFileManager(r)
  \/ \E page \in LoadPages, ids \in Identifiers, ok \in BOOLEAN : LoadPage(page, ids, ok)

InitLD ==
  /\ stage = "load"
  /\ docPages = 1
  /\ serverSchema = <<>>
  /\ InitDesignPage
  /\ InitEditPage
  /\ InitDesign
  /\ InitLoad
  /\ InitFillPage

SpecLoad == InitLD /\ [][NextLoad]_vars

\* pointer positions of presses and moves: the click points, the
\* bottom-right corners of a text field placed at either of them, and the
\* bottom-right corner of a checkbox placed at (20, 30)
GesturePoints == CanvasPoints \cup {<<170, 54>>, <<250, 66>>, <<40, 50>>}

\* keys of the keydown handler that remove, copy and paste
EditKeys == {"delete", "c", "v"}

\* placing, pressing, moving, releasing, copying and pasting on page 1
NextGesture ==
  \/ \E type \in DesignTypes : dpSelectFieldType(type)
  \/ \E p \in CanvasPoints, shiftKey \in BOOLEAN, answer \in PromptAnswers :
       CanvasClick(p, shiftKey, answer)
  \/ \E p \in GesturePoints : CanvasMouseDown(p)
  \/ \E p \in GesturePoints : CanvasMouseMove(p)
  \/ CanvasMouseUp
  \/ \E key \in EditKeys, ctrlKey \in BOOLEAN : KeyDown(key, FALSE, ctrlKey)

\* the design page alone
InitDP ==
  /\ stage = "design"
  /\ docPages \in 1..MaxPages
  /\ serverSchema = <<>>
  /\ InitDesignPage
  /\ InitEditPage
  /\ InitDesign
  /\ InitLoad
  /\ InitFillPage

SpecDP == InitDP /\ [][NextDP]_vars

\* the design page's gestures, with presses and moves at every edge
SpecGesture == InitDP /\ [][NextGesture]_vars

\* the fill page of a document with form fields
InitFill ==
  /\ stage = "fill"
  /\ docPages \in 1..MaxPages
  /\ serverSchema = <<>>
  /\ InitDesignPage
  /\ InitEditPage
  /\ InitDesign
  /\ InitLoad
  /\ InitFillPage

SpecFill == InitFill /\ [][NextFill]_vars

\* the four viewer pages under page navigation
ViewerPages == {"design_portfolio", "edit_portfolio", "design", "fill"}

InitNav ==
  /\ stage \in ViewerPages
  /\ docPages \in 1..MaxPages
  /\ serverSchema = <<>>
  /\ InitDesignPage
  /\ InitEditPage
  /\ InitDesign
  /\ InitLoad
  /\ InitFillPage

NextNav ==
  \/ LoadPDFResolved
  \/ \E i \in 1..MaxPending : RenderResolved(i)
  \/ PrevPage
  \/ NextPage
  \/ \E text \in PageTexts : PageNumberChange(parseInt(text))
  \/ PeLoadPDFResolved
  \/ PePrevPage
  \/ PeNextPage
  \/ DpLoadPDFResolved
  \/ DpPrevPage
  \/ DpNextPage
  \/ \E text \in PageTexts : DpPageInput(parseInt(text))
  \/ FpLoadPDFResolved
  \/ \E fields \in DocFields(MaxPages) : FpExtractResolved(fields)
  \/ \E i \in 1..MaxRenders : FpGetPageResolved(i)
  \/ \E i \in 1..MaxRenders : FpRenderResolved(i)
  \/ FpPrevPage
  \/ FpNextPage
  \/ \E text \in PageTexts : FpPageInput(text)
  \/ \E k \in 1..MaxFillFields : FpView(k)

SpecNav == InitNav /\ [][NextNav]_vars

(***************************************************************************)
(* The portfolio flow: a template is designed, saved, then opened for fill *)
(***************************************************************************)
Init ==
  /\ stage = "design_portfolio"
  /\ docPages \in 1..MaxPages
  /\ serverSchema = <<>>
  /\ InitDesignPage
  /\ InitEditPage
  /\ InitDesign
  /\ InitLoad
  /\ InitFillPage

Next ==
  \/ DesignNext
  \/ OpenEditPage
  \/ EditNext

Spec == Init /\ [][Next]_vars


(***************************************************************************)
(* Properties of the portfolio flow                                        *)
(***************************************************************************)
\* a step of handleOverlayClick that adds a field
IsPlacement == InDesign /\ stage' = stage /\ nextId' = nextId + 1

\* C1 (part 1): a placement click at overlay offset (cx, cy) under zoom
\* scale s stores x = cx/s and y = cy/s, and the new field's element is drawn
\* with its top-left corner at the clicked point
C1_PlacementStep ==
  IsPlacement =>
    LET f == formFields'[Len(formFields')]
        k == Len(formOverlay')
    IN  /\ f.x = Rat(pointer.at[1] * 10, currentScale)
        /\ f.y = Rat(pointer.at[2] * 10, currentScale)
        /\ k > 0
        /\ formOverlay'[k].id = f.id
        /\ formOverlay'[k].left = RatInt(pointer.at[1])
        /\ formOverlay'[k].top = RatInt(pointer.at[2])

\* C1 (part 2): whenever the overlay is redrawn, every element has
\* left = x*s', top = y*s', width = width*s', height = height*s' for its
\* field and the zoom scale s' of that moment
C1_RenderStep ==
  (InDesign /\ stage' = stage /\ formOverlay' # formOverlay) =>
    \A k \in 1..Len(formOverlay') :
      LET e == formOverlay'[k]
          sc == Rat(currentScale', 10)
      IN  /\ e.idx \in 1..Len(formFields')
          /\ e.left = RatMul(formFields'[e.idx].x, sc)
          /\ e.top = RatMul(formFields'[e.idx].y, sc)
          /\ e.width = RatMul(RatInt(formFields'[e.idx].width), sc)
          /\ e.height = RatMul(RatInt(formFields'[e.idx].height), sc)

\* C1 (part 3): a change of the zoom scale changes no stored field
C1_ZoomStep ==
  (InDesign /\ stage' = stage /\ currentScale' # currentScale) => formFields' = formFields

\* C1 (part 4): once the document is loaded and no render is outstanding,
\* the overlay shows every element at its field's geometry times the
\* current zoom scale
C1_Settled ==
  (InDesign /\ pdfLoad = "loaded" /\ renderQueue = <<>>) =>
    \A k \in 1..Len(formOverlay) :
      LET e == formOverlay[k]
          sc == Rat(currentScale, 10)
      IN  /\ e.idx \in 1..Len(formFields)
          /\ e.left = RatMul(formFields[e.idx].x, sc)
          /\ e.top = RatMul(formFields[e.idx].y, sc)
          /\ e.width = RatMul(RatInt(formFields[e.idx].width), sc)
          /\ e.height = RatMul(RatInt(formFields[e.idx].height), sc)

\* C1: on the portfolio design page a placement click at overlay offset
\* (cx, cy) under zoom scale s stores x = cx/s, y = cy/s and draws the field
\* at the clicked point; every redraw shows each field at its stored
\* geometry times the zoom scale of that moment; and zooming never changes a
\* stored x, y, width or height
C1_UnscaledPageSpace ==
  /\ [][C1_PlacementStep /\ C1_RenderStep /\ C1_ZoomStep]_vars
  /\ []C1_Settled

\* a field placed at offset (20, 30) under scale 1.1 is shown, settled, after
\* zooming back to 1.0
C1_Witness ==
  /\ InDesign /\ pdfLoad = "loaded" /\ renderQueue = <<>>
  /\ currentScale = 10
  /\ Len(formFields) = 1 /\ Len(formOverlay) = 1
  /\ formFields[1].x = Rat(200, 11)
  /\ formFields[1].y = Rat(300, 11)
  /\ formOverlay[1].left = Rat(200, 11)

\* C2: a field that the design page shows on page p (its stored page value
\* is the page displayed when it was placed) is overlaid by the edit page
\* exactly when page p is displayed there
C2_StagesAgreeOnPage ==
  (InEdit /\ peLoad = "loaded" /\ peSchemaRequest = "done") =>
    \A i \in 1..Len(peFormFields) :
      (\E k \in 1..Len(peOverlay) : peOverlay[k] = i)
        <=> Len(renderFormFields(<<peFormFields[i]>>, peCurrentPage, 10)) = 1

\* the value the user last entered for the i-th field, or its default
ExpectedValue(i) ==
  IF i \in DOMAIN entered THEN entered[i]
  ELSE IF peFormFields[i].type = "checkbox" THEN [bool |-> FALSE]
  ELSE [str |-> peFormFields[i].default_value]

\* C4: the values collected at save are, for every field of the loaded
\* schema, the value the user last entered (or the default if never
\* edited), whatever navigation or zooming happened in between
C4_EnteredValuesCollected ==
  (stage = "edit_saved" /\ peSchemaRequest = "done") =>
    \A i \in 1..Len(peFormFields) :
      /\ peFormFields[i].name \in DOMAIN formValues.values
      /\ formValues.values[peFormFields[i].name] = ExpectedValue(i)

\* the keys of a persisted field descriptor that saveForm is to carry over
DescriptorKeys ==
  {"name", "type", "x", "y", "width", "height", "page", "required", "read_only",
   "default_value"}

\* C5: the schema sent by saveForm has one descriptor per field of
\* formFields, in order, carrying name, type, x, y, width, height, page,
\* required, read_only and default_value (and the id of a field that has
\* one) unchanged
C5_SchemaCarriesDescriptor ==
  sentSchema.sent =>
    /\ Len(sentSchema.fields) = Len(formFields)
    /\ \A i \in 1..Len(formFields) :
         /\ \A key \in DescriptorKeys :
              /\ key \in DOMAIN sentSchema.fields[i]
              /\ sentSchema.fields[i][key] = formFields[i][key]
         /\ "id" \in DOMAIN formFields[i] =>
              /\ "id" \in DOMAIN sentSchema.fields[i]
              /\ sentSchema.fields[i].id = formFields[i].id

\* C9 (state part): isPlacingField is true exactly when fieldTypeToAdd is
\* non-null
C9_FlagsAgree == isPlacingField <=> fieldTypeToAdd # "null"

\* C9 (step part): selecting the active type leaves placement mode, selecting
\* any other type enters placement mode for it, and a placement click leaves
\* placement mode
C9_Steps ==
  /\ \A type \in PortfolioTypes :
       selectFieldType(type) =>
         IF fieldTypeToAdd = type
         THEN ~isPlacingField' /\ fieldTypeToAdd' = "null"
         ELSE isPlacingField' /\ fieldTypeToAdd' = type
  /\ IsPlacement => (~isPlacingField' /\ fieldTypeToAdd' = "null")

\* C9: on the portfolio design page isPlacingField holds exactly when
\* fieldTypeToAdd is non-null; selecting a type that is not the active one
\* enters placement mode for it, selecting the active type leaves placement
\* mode, and a placement click leaves placement mode
C9_PlacementMode == []C9_FlagsAgree /\ [][C9_Steps]_vars

\* placement mode was entered for a checkbox after a text field was placed
C9_Witness ==
  /\ InDesign /\ isPlacingField /\ fieldTypeToAdd = "checkbox"
  /\ Len(formFields) = 1 /\ formFields[1].type = "text"

(***************************************************************************)
(* Properties of the design page (designpage.js)                           *)
(***************************************************************************)
\* the field of placedFields that a saved widget was made from
FieldOfWidget(w) == placedFields[PanelIndex(placedFields, w.uid)]

\* C3: a field that is still where the user placed it, at canvas pixel
\* (cx, cy) of a page rendered at the scale s, is saved with PDF x = cx/s and
\* with its top edge cy/s below the top of the page.
C3_SavedWhereSeen ==
  savedFields.saved =>
    \A k \in 1..Len(savedFields.widgets) :
      LET w == savedFields.widgets[k]
          f == FieldOfWidget(w)
      IN  (f.x = f.placedAt[1] /\ f.y = f.placedAt[2]) =>
            /\ RatInt(w.x) = Rat(f.placedAt[1] * 10, scale)
            /\ RatInt(PageSize.height - (w.y + w.height)) = Rat(f.placedAt[2] * 10, scale)

\* points at which getFieldAtPosition is probed: the click points, and the
\* bottom-right corner of a text field placed at (100, 42) and its neighbour
ProbePoints == CanvasPoints \cup {<<250, 66>>, <<251, 66>>}

\* the fields of the displayed page whose rectangle, edges included,
\* contains the point
Containing(p) ==
  {i \in 1..Len(placedFields) :
     /\ placedFields[i].page + 1 = pageNum
     /\ placedFields[i].x <= p[1] /\ p[1] <= placedFields[i].x + placedFields[i].width
     /\ placedFields[i].y <= p[2] /\ p[2] <= placedFields[i].y + placedFields[i].height}

\* C6: getFieldAtPosition(x, y) returns the index of the field placed last
\* among the fields of the displayed page that contain the point, -1 when
\* none contains it, and never a field of another page.
C6_TopmostOnDisplayedPage ==
  \A p \in ProbePoints :
    LET r == getFieldAtPosition(placedFields, pageNum, p[1], p[2])
    IN  /\ Containing(p) = {} => r = -1
        /\ Containing(p) # {} =>
             /\ r + 1 \in Containing(p)
             /\ \A j \in Containing(p) : j <= r + 1
        /\ r # -1 => /\ r + 1 \in 1..Len(placedFields)
                     /\ placedFields[r + 1].page + 1 = pageNum

\* two fields of the displayed page overlap at (100, 42), a third point is
\* in neither, and the one placed last is found
C6_Witness ==
  /\ Len(placedFields) = 2
  /\ Containing(<<100, 42>>) = {1, 2}
  /\ Containing(<<251, 66>>) = {}
  /\ getFieldAtPosition(placedFields, pageNum, 100, 42) = 1

\* C7 (steps): a field that a step adds gets the index of the displayed
\* page, and a field that a step keeps keeps its page index
C7_Step ==
  \A j \in 1..Len(placedFields') :
    LET g == placedFields'[j]
        i == PanelIndex(placedFields, g.uid)
    IN  IF i = 0 THEN g.page = pageNum - 1 ELSE g.page = placedFields[i].page

\* C7 (states): every page index is one of the document's
C7_InRange ==
  \A i \in 1..Len(placedFields) : placedFields[i].page \in 0..(docPages - 1)

\* C7: each field has one page index, the displayed page number minus one
\* when it was placed or pasted, within 0..numPages-1; dragging, resizing,
\* arrow keys, renaming, selecting and page navigation never change it.
C7_PageIndexFixed == [][C7_Step]_vars /\ []C7_InRange

\* a field placed on page 1 and a field placed on page 2; page 1 is
\* displayed again and the first field has been moved there
C7_Witness ==
  /\ Len(placedFields) = 2
  /\ placedFields[1].page = 0 /\ placedFields[2].page = 1
  /\ pageNum = 1 /\ edits = 1
  /\ placedFields[1].x # placedFields[1].placedAt[1]

\* the selected fields
Selected == {i \in 1..Len(placedFields) : placedFields[i].selected}

\* the fields without the one at position s
Without(fields, s) ==
  [j \in 1..(Len(fields) - 1) |-> IF j < s THEN fields[j] ELSE fields[j + 1]]

\* C10 (the handler): for Delete and Backspace, with exactly one field
\* selected, on the displayed page, the handler leaves placedFields without
\* that field, the others as they are and in their order; with no field
\* selected it leaves placedFields as it is
C10_Handler ==
  \A key \in {"delete", "backspace"} :
    LET after == keydownDelete(placedFields, pageNum, key)
    IN  /\ Selected = {} => after = placedFields
        /\ \A s \in Selected :
             (Selected = {s} /\ placedFields[s].page = pageNum - 1) =>
               /\ Len(after) = Len(placedFields) - 1
               /\ \A j \in 1..(s - 1) : after[j] = placedFields[j]
               /\ \A j \in s..(Len(placedFields) - 1) : after[j] = placedFields[j + 1]

\* C10 (steps): a step that shortens placedFields while exactly one field
\* is selected, on the displayed page, removes that field and no other;
\* no step shortens placedFields while no field is selected
C10_Step ==
  Len(placedFields') < Len(placedFields) =>
    /\ Selected # {}
    /\ \A s \in Selected :
         (Selected = {s} /\ placedFields[s].page = pageNum - 1) =>
           placedFields' = Without(placedFields, s)

\* C10: 'Press Delete key to remove fields' removes exactly the one selected
\* field of the displayed page, and nothing when no field is selected.
C10_DeleteRemovesSelected == []C10_Handler /\ [][C10_Step]_vars

\* of two fields placed, the first was selected by a mouse press and then
\* deleted: the second is left, unselected, and the panel is cleared
C10_Witness ==
  /\ nextUid = 3 /\ gestures = 1
  /\ Len(placedFields) = 1
  /\ placedFields[1].uid = 2 /\ ~placedFields[1].selected
  /\ fieldNameInput = NoName /\ panelField = 0

(***************************************************************************)
(* Properties of the page loads                                            *)
(***************************************************************************)
\* C8: two loads of the same page with the same identifiers request the
\* same PDF URL whatever earlier pages left in localStorage, namely the URL
\* that the identifiers alone give.
C8_LoadIgnoresLeftovers ==
  opened.done =>
    /\ requested["A"] = requested["B"]
    /\ \A r \in Runs : requested[r] = RequestedUrl(opened.page, EmptyStorage, opened.ids)

(***************************************************************************)
(* Gestures and keys of the design page (designpage.js)                    *)
(***************************************************************************)
\* x, y, width and height of a field
Geometry(f) == <<f.x, f.y, f.width, f.height>>

\* C11: during a drag (a mousedown inside a field away from its edges, no
\* mouseup or mouseleave yet) every mousemove leaves the field taken hold of
\* at its position at mousedown plus the pointer's displacement since
\* mousedown, with its width and height as they were, and changes the
\* geometry of no other field.
C11_DragStep ==
  \A p \in CanvasPoints :
    (isDragging /\ CanvasMouseMove(p)) =>
      /\ Len(placedFields') = Len(placedFields)
      /\ \A j \in 1..Len(placedFields) :
           IF placedFields[j].uid = grabbed.uid
           THEN /\ placedFields'[j].x = grabbed.at[1] + (p[1] - grabbed.pointer[1])
                /\ placedFields'[j].y = grabbed.at[2] + (p[2] - grabbed.pointer[2])
                /\ placedFields'[j].width = placedFields[j].width
                /\ placedFields'[j].height = placedFields[j].height
           ELSE Geometry(placedFields'[j]) = Geometry(placedFields[j])

C11_DragMovesGrabbedField == [][C11_DragStep]_vars

\* C12: every field of placedFields is at least 20 wide and 20 high, after
\* any placements, pastes and resizes.
C12_MinimumSize ==
  \A i \in 1..Len(placedFields) :
    placedFields[i].width >= 20 /\ placedFields[i].height >= 20

\* a text field placed 150 by 24 was taken hold of at an edge and the
\* pointer moved further than its width and its height: both are 20
C12_Witness ==
  /\ edits = 1 /\ ~isDragging
  /\ \E i \in 1..Len(placedFields) :
       /\ placedFields[i].type = "text"
       /\ placedFields[i].width = 20 /\ placedFields[i].height = 20


(***************************************************************************)
(* Properties of the keys (designpage.js)                                  *)
(***************************************************************************)
\* outside a drag or resize gesture only the keydown handler removes or
\* moves a field: such a step keeps every field of a page that is not
\* displayed, where it was
C18_KeyStep ==
  (~isDragging /\ ~isResizing) =>
    \A i \in 1..Len(placedFields) :
      placedFields[i].page # pageNum - 1 =>
        \E j \in 1..Len(placedFields') :
          /\ placedFields'[j].uid = placedFields[i].uid
          /\ placedFields'[j].x = placedFields[i].x
          /\ placedFields'[j].y = placedFields[i].y

\* C18: on designpage.js a Delete or arrow-key press only removes or moves
\* a field of the displayed page; a field selected on another page is
\* neither deleted nor moved while a different page is displayed.
C18_KeysActOnDisplayedPage == [][C18_KeyStep]_vars

(***************************************************************************)
(* Properties of field names (designpage.js)                               *)
(***************************************************************************)
\* C16: on a design page no two fields share a name, after any sequence
\* of placements, pastes and deletions that accepts the default or
\* pre-filled name each time.
C16_NamesUnique ==
  \A i, j \in 1..Len(placedFields) :
    i # j => placedFields[i].name # placedFields[j].name

(***************************************************************************)
(* Properties of the schema load (designpage_portfolio.js)                 *)
(***************************************************************************)
\* activeField is an object that no entry of the fields given carries
Dangling(active, fields) ==
  /\ active.kind = "obj"
  /\ \A j \in 1..Len(fields) : fields[j] # active.obj

\* the step that processes the answer, or the failure, of the schema
\* request keeps every field added since the request was issued and does
\* not leave activeField on such a field that formFields has lost
C14_ResponseStep ==
  (schemaRequest = "pending" /\ schemaRequest' = "done") =>
    /\ \A i \in 1..Len(formFields) :
         FieldId(formFields[i]) >= idAtRequest =>
           \E j \in 1..Len(formFields') : formFields'[j] = formFields[i]
    /\ ~(/\ Dangling(activeField', formFields')
         /\ FieldId(activeField'.obj) >= idAtRequest)

\* C14: a field the user adds on the portfolio design page while the
\* schema request of loadFormFields is pending is still in formFields (and
\* so in formData.schema.fields) after the response or its failure has
\* been processed, and activeField does not refer to a field absent from
\* formFields.
C14_AddedFieldSurvives == [][C14_ResponseStep]_vars

(***************************************************************************)
(* Properties of rendering (editPage.js)                                   *)
(***************************************************************************)
\* every renderPage call has run to its end
RendersSettled == fpLoad = "loaded" /\ fpRenders = <<>>

\* C15: once all outstanding getPage and render promises have settled, in
\* whatever order, the page drawn on the canvas and the field overlays
\* shown are both those of the current page number; a render started
\* earlier for another page is not displayed over, or combined with the
\* overlays of, the current page.
C15_CanvasShowsCurrentPage ==
  RendersSettled =>
    /\ fpCanvas.pages = {fpPageNum}
    /\ fpCanvas.overlays = {fpPageNum}

(***************************************************************************)
(* Properties of the fields panel (editPage.js)                            *)
(***************************************************************************)
\* C17: on the fill page the panel shows a checkbox checked exactly when
\* saveFilledPDF would check it in the PDF, after any sequence of check
\* and uncheck actions and re-renders of the panel; after the user
\* unchecks a checkbox it is shown unchecked.
C17_PanelAgreesWithSave ==
  \A k \in 1..Len(fieldsPanel), j \in 1..Len(fpFormFields) :
    (fpFormFields[j].id = fieldsPanel[k].id /\ fpFormFields[j].type = "checkbox") =>
      (fieldsPanel[k].checked <=> saveChecks(fpFormFields[j]))

(***************************************************************************)
(* Properties of page navigation (all four viewer pages)                   *)
(***************************************************************************)
\* 10 to the power n
Pow10(n) ==
  LET P[i \in 0..n] == IF i = 0 THEN 1 ELSE 10 * P[i - 1]
  IN  P[n]

\* the number a text writes: decimal digits, or decimal digits with a
\* decimal exponent (1e1 is 10); NaN for any other text
WrittenNumber(text) ==
  LET k == LeadingDigits(text)
  IN  IF k = 0 THEN [nan |-> TRUE, val |-> 0]
      ELSE IF k = Len(text) THEN [nan |-> FALSE, val |-> DigitsValue(text)]
      ELSE IF /\ text[k + 1] = "e" /\ k + 1 < Len(text)
              /\ \A i \in (k + 2)..Len(text) : DigitOf(text[i]) >= 0
           THEN [nan |-> FALSE,
                 val |-> DigitsValue(SubSeq(text, 1, k))
                           * Pow10(DigitsValue(SubSeq(text, k + 2, Len(text))))]
           ELSE [nan |-> TRUE, val |-> 0]

\* a text that is not a number, or a number outside 1..N
NotAPage(text) ==
  WrittenNumber(text).nan \/ WrittenNumber(text).val \notin 1..docPages

\* once the document is loaded the current page is one of its pages
C13_InRange ==
  /\ pdfLoad = "loaded" => totalPages = docPages /\ currentPage \in 1..docPages
  /\ peLoad = "loaded" => peTotalPages = docPages /\ peCurrentPage \in 1..docPages
  /\ dpLoad = "loaded" => pageNum \in 1..docPages
  /\ fpLoad # "pending" => fpTotalPages = docPages /\ fpPageNum \in 1..docPages

\* a change of #page-number to a text that is not a page has left the
\* current page alone
C13_InputRejected ==
  typed.is /\ NotAPage(typed.text) => fpPageNum = typed.from

\* C13: once a document with N >= 1 pages is loaded, the current page
\* number is in 1..N after any sequence of previous-page, next-page,
\* go-to-page, 'View' and page-number-input events, on each of the four
\* viewer pages, and a page-number input that is non-numeric or outside
\* 1..N leaves the current page unchanged.
C13_PageStaysInRange == C13_InRange /\ C13_InputRejected

====
